---- MODULE Spec2Model ----
(***************************************************************************)
(* Trust & Distribution Analysis Engine and Trusted-Circle service of the  *)
(* snap (packages/snap/src/distribution.ts, trusted-circle/service.ts),    *)
(* and the onTransaction handler that uses them.                           *)
(*                                                                         *)
(* JavaScript numbers are modelled as exact rationals <<num, den>> with    *)
(* den > 0, kept in lowest terms, so that equality of two numbers is       *)
(* equality of the pairs.  Stake values are integers.  A sum of stakes is  *)
(* rounded as floating-point addition rounds it (to the nearest number     *)
(* with SignificandBits significant bits, ties to even); an IEEE-754       *)
(* double has 53 such bits, the numbers of the model have fewer, and the   *)
(* stakes are scaled with them.  Quotients and products are exact.         *)
(***************************************************************************)
EXTENDS Integers, Sequences, FiniteSets, TLC

VARIABLES
    call,       \* the pure-function call in progress: its operation, arguments and result
    now,        \* the clock (Date.now), in ticks
    cache,      \* TrustedCircleState: user address -> CachedTrustedCircle (or no entry)
    pc,         \* each getTrustedCircle request's position
    raddr,      \* each request's userAddress argument
    cached,     \* each request's local `cached`: what the cache read gave
    response,   \* each request's local `response`: the Data Provider's answer
    contacts,   \* each request's local `contacts`
    ret,        \* what each request returned to its caller, or that it threw
    queries,    \* history: the number of Data Provider queries each request issued
    writes,     \* history: the lists each request wrote to the cache, in order
    lastSet,    \* history: per address, the latest cache set (its list and time)
    tx          \* the onTransaction request in progress: its position and locals

vars == <<call, now, cache, pc, raddr, cached, response, contacts, ret,
          queries, writes, lastSet, tx>>

(***************************************************************************)
(* Bounds of the model.                                                    *)
(***************************************************************************)
MaxStakers == 4        \* staker counts given to determineStatus: 0..MaxStakers
GiniSteps == 20        \* gini inputs are k/GiniSteps, k in 0..GiniSteps
Top1Steps == 10        \* top1Percent inputs are 100*k/Top1Steps
MaxCap == 10           \* market caps given to determineTrustLevel: 0..MaxCap
MaxShare == 6          \* largest single stake in a positions list
MaxPositions == 3      \* longest positions list
MaxCount == 7          \* largest aggregate count
MaxTime == 3           \* the clock runs from 0 to MaxTime
MaxHolders == 2        \* positions on a triple, both sides together
MaxContacts == 2       \* contacts given to enrichContactLabels, both sides together
MaxAtoms == 2          \* atoms in an answer of the Data Provider
MaxTriples == 2        \* claims in an answer of the Data Provider
SignificandBits == 10  \* significant bits of a number (53 in a double)

(***************************************************************************)
(* Numbers.                                                                *)
(***************************************************************************)
Abs(x) == IF x < 0 THEN -x ELSE x

RECURSIVE GCD(_, _)
GCD(a, b) == IF b = 0 THEN a ELSE GCD(b, a % b)

\* The number n/d (d > 0) in lowest terms.
Rat(n, d) == LET g == GCD(Abs(n), d) IN <<n \div g, d \div g>>

\* NaN as the result of a division; every comparison with it is false, and
\* Math.min and Math.max return it when it is an argument.
RNaN == <<0, 0>>
IsRNaN(a) == a[2] = 0
RLeq(a, b) == ~IsRNaN(a) /\ ~IsRNaN(b) /\ a[1] * b[2] <= b[1] * a[2]
RLt(a, b) == ~IsRNaN(a) /\ ~IsRNaN(b) /\ a[1] * b[2] < b[1] * a[2]
RGeq(a, b) == RLeq(b, a)
RMin(a, b) == IF IsRNaN(a) \/ IsRNaN(b) THEN RNaN ELSE IF RLeq(a, b) THEN a ELSE b
RMax(a, b) == IF IsRNaN(a) \/ IsRNaN(b) THEN RNaN ELSE IF RLeq(a, b) THEN b ELSE a

\* Number.POSITIVE_INFINITY, above every finite number of the model; its negation
\* is Number.NEGATIVE_INFINITY.  NotANumber is NaN as the result of a
\* subtraction or an addition.
Infinity == 1000000
NotANumber == -Infinity - 1

RECURSIVE Pow2(_)
Pow2(n) == IF n = 0 THEN 1 ELSE 2 * Pow2(n - 1)

\* Integers below this are representable, one and all.
SignificandLimit == Pow2(SignificandBits)

\* The spacing of the representable numbers around x >= 0.
RECURSIVE Spacing(_, _)
Spacing(x, g) == IF x \div g < SignificandLimit THEN g ELSE Spacing(x, 2 * g)

\* x >= 0 rounded to the nearest representable number, ties to the even significand.
RoundToSignificand(x) ==
    LET g == Spacing(x, 1)
        q == x \div g
        r == x % g
    IN IF 2 * r > g \/ (2 * r = g /\ q % 2 = 1) THEN (q + 1) * g ELSE q * g

\* a + b of two non-negative numbers
FAdd(a, b) ==
    IF a = NotANumber \/ b = NotANumber THEN NotANumber
    ELSE IF a = Infinity \/ b = Infinity THEN Infinity
    ELSE RoundToSignificand(a + b)

\* Math.abs(a - b) of two positive numbers: Infinity - Infinity is NaN
AbsDiff(a, b) ==
    IF a = Infinity /\ b = Infinity THEN NotANumber
    ELSE IF a = Infinity \/ b = Infinity THEN Infinity
    ELSE Abs(a - b)

\* k * x for a finite k > 0
Times(k, x) == IF x = Infinity \/ x = NotANumber THEN x ELSE k * x

\* a / b for b > 0, a being finite whenever b is: Infinity / Infinity is NaN
FDiv(a, b) ==
    IF a = NotANumber \/ (a = Infinity /\ b = Infinity) THEN RNaN
    ELSE IF b = Infinity THEN Rat(0, 1)
    ELSE Rat(a, b)

\* cumulative >= total * 0.51
ReachesThreshold(cumulative, total) ==
    IF total = Infinity THEN cumulative = Infinity ELSE 100 * cumulative >= 51 * total

\* values.reduce((sum, v) => sum + v, 0) over positive values
RECURSIVE SumFrom(_, _)
SumFrom(s, sum) == IF s = <<>> THEN sum ELSE SumFrom(Tail(s), FAdd(sum, Head(s)))

SeqSum(s) == SumFrom(s, 0)

\* values.filter((v) => v > 0)
FilterPositive(values) == SelectSeq(values, LAMBDA v : v > 0)

\* [...values].sort((a, b) => b - a)
RECURSIVE InsertDesc(_, _)
InsertDesc(v, s) ==
    IF s = <<>> THEN <<v>>
    ELSE IF v > Head(s) THEN <<v>> \o s
    ELSE <<Head(s)>> \o InsertDesc(v, Tail(s))

RECURSIVE SortDesc(_)
SortDesc(s) == IF s = <<>> THEN <<>> ELSE InsertDesc(Head(s), SortDesc(Tail(s)))

\* sorted.slice(0, n)
Take(s, n) == SubSeq(s, 1, IF n < Len(s) THEN n ELSE Len(s))

(***************************************************************************)
(* Status tables.                                                          *)
(***************************************************************************)
DistributionStatus == {"well-distributed", "moderate", "concentrated", "whale-dominated"}

DISTRIBUTION_SNAP_COLORS ==
    [s \in DistributionStatus |->
        CASE s = "well-distributed" -> "success"
          [] s = "moderate" -> "warning"
          [] s = "concentrated" -> "warning"
          [] s = "whale-dominated" -> "error"]

DISTRIBUTION_HEX_COLORS ==
    [s \in DistributionStatus |->
        CASE s = "well-distributed" -> "#22c55e"
          [] s = "moderate" -> "#eab308"
          [] s = "concentrated" -> "#f97316"
          [] s = "whale-dominated" -> "#ef4444"]

DISTRIBUTION_LABELS ==
    [s \in DistributionStatus |->
        CASE s = "well-distributed" -> "Well Distributed"
          [] s = "moderate" -> "Moderate"
          [] s = "concentrated" -> "Concentrated"
          [] s = "whale-dominated" -> "Whale Dominated"]

DISTRIBUTION_SHORT_LABELS ==
    [s \in DistributionStatus |->
        CASE s = "well-distributed" -> "Distributed"
          [] s = "moderate" -> "Moderate"
          [] s = "concentrated" -> "Concentrated"
          [] s = "whale-dominated" -> "Whale"]

\* DISTRIBUTION_THRESHOLDS
GiniWellDistributed == Rat(35, 100)
GiniModerate == Rat(55, 100)
GiniConcentrated == Rat(75, 100)
Top1Concentrated == 80
MinStakersForAnalysis == 3

(***************************************************************************)
(* StatisticsKernel.                                                       *)
(***************************************************************************)
\* sumDifferences after the two loops: |x_i - x_j| added for i, then j, ascending
SumDifferences(xs) ==
    LET RECURSIVE Loop(_, _, _)
        Loop(i, j, sumDifferences) ==
            IF i > Len(xs) THEN sumDifferences
            ELSE IF j > Len(xs) THEN Loop(i + 1, 1, sumDifferences)
            ELSE Loop(i, j + 1, FAdd(sumDifferences, AbsDiff(xs[i], xs[j])))
    IN Loop(1, 1, 0)

\* Mutant: zero and negative entries are counted as participants.
calculateGini_CountAll(values) ==
    LET n == Len(values)
        total == SeqSum(values)
    IN IF n = 0 THEN Rat(0, 1)
       ELSE IF n = 1 THEN Rat(0, 1)
       ELSE IF total <= 0 THEN Rat(0, 1)
       ELSE LET gini == FDiv(SumDifferences(values), Times(2 * n, total))
            IN RMax(Rat(0, 1), RMin(Rat(1, 1), gini))

calculateGini(values) ==
    LET nonZeroValues == FilterPositive(values)
        n == Len(nonZeroValues)
        total == SeqSum(nonZeroValues)
    IN IF n = 0 THEN Rat(0, 1)
       ELSE IF n = 1 THEN Rat(0, 1)
       ELSE IF total = 0 THEN Rat(0, 1)
       ELSE \* sumDifferences / (2 * n * n * mean), mean = total / n
            LET gini == FDiv(SumDifferences(nonZeroValues), Times(2 * n, total))
            IN RMax(Rat(0, 1), RMin(Rat(1, 1), gini))

\* Mutant: the values are walked in the order given, not largest first.
calculateNakamoto_Unsorted(values) ==
    LET nonZeroValues == FilterPositive(values)
        total == SeqSum(nonZeroValues)
        sorted == nonZeroValues
        RECURSIVE Walk(_, _)
        Walk(i, cumulative) ==
            IF i > Len(sorted) THEN Len(sorted)
            ELSE IF ReachesThreshold(FAdd(cumulative, sorted[i]), total) THEN i
            ELSE Walk(i + 1, FAdd(cumulative, sorted[i]))
    IN IF Len(nonZeroValues) = 0 THEN 0 ELSE Walk(1, 0)

calculateNakamoto(values) ==
    LET nonZeroValues == FilterPositive(values)
        total == SeqSum(nonZeroValues)
        sorted == SortDesc(nonZeroValues)
        RECURSIVE Walk(_, _)
        Walk(i, cumulative) ==
            IF i > Len(sorted) THEN Len(sorted)
            ELSE IF ReachesThreshold(FAdd(cumulative, sorted[i]), total) THEN i
            ELSE Walk(i + 1, FAdd(cumulative, sorted[i]))
    IN IF Len(nonZeroValues) = 0 THEN 0 ELSE Walk(1, 0)

calculateTopNPercent(values, n) ==
    LET nonZeroValues == FilterPositive(values)
        total == SeqSum(nonZeroValues)
        topN == Take(SortDesc(nonZeroValues), n)
    IN IF Len(nonZeroValues) = 0 THEN Rat(0, 1)
       ELSE IF total = 0 THEN Rat(0, 1)
       ELSE FDiv(Times(100, SeqSum(topN)), total)

(***************************************************************************)
(* StatusClassifier.                                                       *)
(***************************************************************************)
\* Mutant: the empty-vault check made before the whale check.
determineStatus_CountFirst(gini, top1Percent, stakerCount) ==
    IF stakerCount = 0 THEN "well-distributed"
    ELSE IF RGeq(top1Percent, Rat(Top1Concentrated, 1)) THEN "whale-dominated"
    ELSE IF stakerCount < MinStakersForAnalysis THEN "concentrated"
    ELSE IF RLeq(gini, GiniWellDistributed) THEN "well-distributed"
    ELSE IF RLeq(gini, GiniModerate) THEN "moderate"
    ELSE IF RLeq(gini, GiniConcentrated) THEN "concentrated"
    ELSE "whale-dominated"

\* Mutant: one or two stakers are classified by their gini like any number.
determineStatus_NoFewCheck(gini, top1Percent, stakerCount) ==
    IF RGeq(top1Percent, Rat(Top1Concentrated, 1)) THEN "whale-dominated"
    ELSE IF stakerCount = 0 THEN "well-distributed"
    ELSE IF RLeq(gini, GiniWellDistributed) THEN "well-distributed"
    ELSE IF RLeq(gini, GiniModerate) THEN "moderate"
    ELSE IF RLeq(gini, GiniConcentrated) THEN "concentrated"
    ELSE "whale-dominated"

\* Mutant: the too-few-stakers check made before the empty-vault check.
determineStatus_FewFirst(gini, top1Percent, stakerCount) ==
    IF RGeq(top1Percent, Rat(Top1Concentrated, 1)) THEN "whale-dominated"
    ELSE IF stakerCount < MinStakersForAnalysis THEN "concentrated"
    ELSE IF stakerCount = 0 THEN "well-distributed"
    ELSE IF RLeq(gini, GiniWellDistributed) THEN "well-distributed"
    ELSE IF RLeq(gini, GiniModerate) THEN "moderate"
    ELSE IF RLeq(gini, GiniConcentrated) THEN "concentrated"
    ELSE "whale-dominated"

determineStatus(gini, top1Percent, stakerCount) ==
    IF RGeq(top1Percent, Rat(Top1Concentrated, 1)) THEN "whale-dominated"
    ELSE IF stakerCount = 0 THEN "well-distributed"
    ELSE IF stakerCount < MinStakersForAnalysis THEN "concentrated"
    ELSE IF RLeq(gini, GiniWellDistributed) THEN "well-distributed"
    ELSE IF RLeq(gini, GiniModerate) THEN "moderate"
    ELSE IF RLeq(gini, GiniConcentrated) THEN "concentrated"
    ELSE "whale-dominated"

(***************************************************************************)
(* DistributionAnalyzer.                                                   *)
(***************************************************************************)
\* A number held by a position: a finite value, Infinity, -Infinity, or NaN.
Num(v) == [k |-> "num", v |-> v]
NaN == [k |-> "nan", v |-> 0]
isNaN(s) == s.k = "nan"

\* Mutant: an empty vault is given a colour of its own.
Analysis_GreyWhenEmpty(gini, nakamoto, top1Percent, top3Percent, stakerCount, totalShares, status, label, shortLabel) ==
    [gini |-> gini, nakamoto |-> nakamoto, top1Percent |-> top1Percent,
     top3Percent |-> top3Percent, stakerCount |-> stakerCount,
     totalShares |-> totalShares, status |-> status,
     snapColor |-> IF stakerCount = 0 THEN "muted" ELSE DISTRIBUTION_SNAP_COLORS[status],
     hexColor |-> DISTRIBUTION_HEX_COLORS[status],
     label |-> label, shortLabel |-> shortLabel]

Analysis(gini, nakamoto, top1Percent, top3Percent, stakerCount, totalShares, status, label, shortLabel) ==
    [gini |-> gini, nakamoto |-> nakamoto, top1Percent |-> top1Percent,
     top3Percent |-> top3Percent, stakerCount |-> stakerCount,
     totalShares |-> totalShares, status |-> status,
     snapColor |-> DISTRIBUTION_SNAP_COLORS[status],
     hexColor |-> DISTRIBUTION_HEX_COLORS[status],
     label |-> label, shortLabel |-> shortLabel]

\* Mutant: the empty analysis is labelled from the tables, like any other.
analyzeShareDistribution_TableLabel(shares) ==
    LET nonZeroShares == FilterPositive(shares)
        stakerCount == Len(nonZeroShares)
        totalShares == SeqSum(nonZeroShares)
        gini == calculateGini(nonZeroShares)
        nakamoto == calculateNakamoto(nonZeroShares)
        top1Percent == calculateTopNPercent(nonZeroShares, 1)
        top3Percent == calculateTopNPercent(nonZeroShares, 3)
        status == determineStatus(gini, top1Percent, stakerCount)
    IN Analysis(gini, nakamoto, top1Percent, top3Percent, stakerCount, totalShares,
                status, DISTRIBUTION_LABELS[status], DISTRIBUTION_SHORT_LABELS[status])

analyzeShareDistribution(shares) ==
    LET nonZeroShares == FilterPositive(shares)
        stakerCount == Len(nonZeroShares)
        totalShares == SeqSum(nonZeroShares)
        gini == calculateGini(nonZeroShares)
        nakamoto == calculateNakamoto(nonZeroShares)
        top1Percent == calculateTopNPercent(nonZeroShares, 1)
        top3Percent == calculateTopNPercent(nonZeroShares, 3)
        status == determineStatus(gini, top1Percent, stakerCount)
    IN IF stakerCount = 0
       THEN Analysis(Rat(0, 1), 0, Rat(0, 1), Rat(0, 1), 0, 0,
                     "well-distributed", "No Stakes", "None")
       ELSE Analysis(gini, nakamoto, top1Percent, top3Percent, stakerCount, totalShares,
                     status, DISTRIBUTION_LABELS[status], DISTRIBUTION_SHORT_LABELS[status])

\* positions.map((p) => p.shares).filter((s) => !isNaN(s) && s > 0)
analyzePositionDistribution(positions) ==
    LET kept == SelectSeq(positions, LAMBDA s : ~isNaN(s) /\ s.v > 0)
    IN analyzeShareDistribution([i \in 1..Len(kept) |-> kept[i].v])

\* floor(sqrt(x)) for 0 <= x < hi * hi
RECURSIVE ISqrtIn(_, _, _)
ISqrtIn(x, lo, hi) ==
    IF hi - lo <= 1 THEN lo
    ELSE LET mid == (lo + hi) \div 2
         IN IF mid * mid <= x THEN ISqrtIn(x, mid, hi) ELSE ISqrtIn(x, lo, mid)

\* 100 / Math.sqrt(count), to 1/100 of a percent (rounded down)
SqrtTop1(count) == Rat(ISqrtIn(100000000 \div count, 0, 10001), 100)

\* Math.max(20, 100 / Math.pow(count, 0.7)), to 1/100 of a percent (rounded down):
\* 100 / 6^0.7 = 28.529..., 100 / 7^0.7 = 25.611..., 100 / 8^0.7 = 23.325...,
\* 100 / 9^0.7 = 21.479..., and 100 / count^0.7 < 20 from count = 10 on
\* (10^7 > 5^10).
PowTop1(count) ==
    CASE count = 6 -> Rat(2852, 100)
      [] count = 7 -> Rat(2561, 100)
      [] count = 8 -> Rat(2332, 100)
      [] count = 9 -> Rat(2147, 100)
      [] OTHER -> Rat(20, 1)

\* An aggregate: null/undefined, or {count, sum: {shares}, avg: {shares}}.
NullAggregate == [null |-> TRUE, count |-> 0, sum |-> 0, avg |-> 0]
Aggregate(count, sum, avg) == [null |-> FALSE, count |-> count, sum |-> sum, avg |-> avg]

\* Mutant: a total of zero shares is estimated like any other.
estimateDistributionFromAggregate_AnySum(aggregate) ==
    IF aggregate.null \/ aggregate.count = 0 THEN analyzeShareDistribution(<<>>)
    ELSE
    LET count == aggregate.count
        totalShares == aggregate.sum
        estimatedTop1Percent ==
            IF count = 1 THEN Rat(100, 1)
            ELSE IF count = 2 THEN Rat(70, 1)
            ELSE IF count <= 5 THEN SqrtTop1(count)
            ELSE PowTop1(count)
        estimatedGini ==
            IF count = 1 THEN Rat(0, 1)
            ELSE IF count = 2 THEN Rat(5, 10)
            ELSE IF count <= 5 THEN Rat(6, 10)
            ELSE IF count <= 10 THEN Rat(5, 10)
            ELSE Rat(4, 10)
        status == determineStatus(estimatedGini, estimatedTop1Percent, count)
        \* Math.ceil(count * 0.3)
        nakamoto == IF count = 1 THEN 1 ELSE (3 * count + 9) \div 10
        top3 == RMin(Rat(100, 1),
                     Rat(13 * estimatedTop1Percent[1], 10 * estimatedTop1Percent[2]))
    IN IF count = 0 THEN analyzeShareDistribution(<<>>)
       ELSE Analysis(estimatedGini, nakamoto, estimatedTop1Percent, top3, count, totalShares,
                     status, DISTRIBUTION_LABELS[status], DISTRIBUTION_SHORT_LABELS[status])

\* Mutant: more than ten stakers are given a gini of 0.3.
estimateDistributionFromAggregate_LowGini(aggregate) ==
    IF aggregate.null \/ aggregate.count = 0 THEN analyzeShareDistribution(<<>>)
    ELSE
    LET count == aggregate.count
        totalShares == aggregate.sum
        estimatedTop1Percent ==
            IF count = 1 THEN Rat(100, 1)
            ELSE IF count = 2 THEN Rat(70, 1)
            ELSE IF count <= 5 THEN SqrtTop1(count)
            ELSE PowTop1(count)
        estimatedGini ==
            IF count = 1 THEN Rat(0, 1)
            ELSE IF count = 2 THEN Rat(5, 10)
            ELSE IF count <= 5 THEN Rat(6, 10)
            ELSE IF count <= 10 THEN Rat(5, 10)
            ELSE Rat(3, 10)
        status == determineStatus(estimatedGini, estimatedTop1Percent, count)
        \* Math.ceil(count * 0.3)
        nakamoto == IF count = 1 THEN 1 ELSE (3 * count + 9) \div 10
        top3 == RMin(Rat(100, 1),
                     Rat(13 * estimatedTop1Percent[1], 10 * estimatedTop1Percent[2]))
    IN IF count = 0 \/ totalShares = 0 THEN analyzeShareDistribution(<<>>)
       ELSE Analysis(estimatedGini, nakamoto, estimatedTop1Percent, top3, count, totalShares,
                     status, DISTRIBUTION_LABELS[status], DISTRIBUTION_SHORT_LABELS[status])

estimateDistributionFromAggregate(aggregate) ==
    IF aggregate.null \/ aggregate.count = 0 THEN analyzeShareDistribution(<<>>)
    ELSE
    LET count == aggregate.count
        totalShares == aggregate.sum
        estimatedTop1Percent ==
            IF count = 1 THEN Rat(100, 1)
            ELSE IF count = 2 THEN Rat(70, 1)
            ELSE IF count <= 5 THEN SqrtTop1(count)
            ELSE PowTop1(count)
        estimatedGini ==
            IF count = 1 THEN Rat(0, 1)
            ELSE IF count = 2 THEN Rat(5, 10)
            ELSE IF count <= 5 THEN Rat(6, 10)
            ELSE IF count <= 10 THEN Rat(5, 10)
            ELSE Rat(4, 10)
        status == determineStatus(estimatedGini, estimatedTop1Percent, count)
        \* Math.ceil(count * 0.3)
        nakamoto == IF count = 1 THEN 1 ELSE (3 * count + 9) \div 10
        top3 == RMin(Rat(100, 1),
                     Rat(13 * estimatedTop1Percent[1], 10 * estimatedTop1Percent[2]))
    IN IF count = 0 \/ totalShares = 0 THEN analyzeShareDistribution(<<>>)
       ELSE Analysis(estimatedGini, nakamoto, estimatedTop1Percent, top3, count, totalShares,
                     status, DISTRIBUTION_LABELS[status], DISTRIBUTION_SHORT_LABELS[status])

(***************************************************************************)
(* TrustClassifier and CombinedAnalysis.                                   *)
(***************************************************************************)
\* Mutant: a ratio of exactly 90 no longer counts as trusted.
determineTrustLevel_StrictTrusted(supportMarketCap, opposeMarketCap) ==
    LET total == supportMarketCap + opposeMarketCap
        trustRatio == Rat(100 * supportMarketCap, total)
    IN IF total = 0 THEN [level |-> "no-stakes", ratio |-> Rat(50, 1)]
       ELSE IF RLt(Rat(90, 1), trustRatio) THEN [level |-> "trusted", ratio |-> trustRatio]
       ELSE IF RGeq(trustRatio, Rat(70, 1)) THEN [level |-> "mixed", ratio |-> trustRatio]
       ELSE [level |-> "untrusted", ratio |-> trustRatio]

determineTrustLevel(supportMarketCap, opposeMarketCap) ==
    LET total == supportMarketCap + opposeMarketCap
        trustRatio == Rat(100 * supportMarketCap, total)
    IN IF total = 0 THEN [level |-> "no-stakes", ratio |-> Rat(50, 1)]
       ELSE IF RGeq(trustRatio, Rat(90, 1)) THEN [level |-> "trusted", ratio |-> trustRatio]
       ELSE IF RGeq(trustRatio, Rat(70, 1)) THEN [level |-> "mixed", ratio |-> trustRatio]
       ELSE [level |-> "untrusted", ratio |-> trustRatio]

\* getTrustInfo of the account component: the badge and colour shown for the
\* two market caps.
getTrustInfo(supportMarketCap, opposeMarketCap) ==
    LET total == supportMarketCap + opposeMarketCap
        trustRatio == Rat(100 * supportMarketCap, total)
    IN IF total = 0 THEN [badge |-> "No Stakes", color |-> "muted"]
       ELSE IF RGeq(trustRatio, Rat(70, 1)) THEN [badge |-> "Trusted", color |-> "success"]
       ELSE IF RGeq(trustRatio, Rat(30, 1)) THEN [badge |-> "Mixed", color |-> "warning"]
       ELSE [badge |-> "Untrusted", color |-> "warning"]

\* order.indexOf(status)
OrderIndex(status) ==
    CASE status = "well-distributed" -> 0
      [] status = "moderate" -> 1
      [] status = "concentrated" -> 2
      [] status = "whale-dominated" -> 3

\* Mutant: the comparison reversed, so the less severe status is picked.
getWorseDistribution_Reversed(a, b) == IF OrderIndex(a) <= OrderIndex(b) THEN a ELSE b

getWorseDistribution(a, b) == IF OrderIndex(a) >= OrderIndex(b) THEN a ELSE b

\* An optional positions argument: absent (undefined), or a list.
NoPositions == [present |-> FALSE, list |-> <<>>]
Positions(list) == [present |-> TRUE, list |-> list]

\* Mutant: a side with an aggregate is estimated even when it has positions.
analyzeTrustDistribution_AggregateFirst(supportMarketCap, opposeMarketCap, forPositions, againstPositions, forAggregate, againstAggregate) ==
    LET trust == determineTrustLevel(supportMarketCap, opposeMarketCap)
        forDistribution ==
            IF forAggregate.null /\ forPositions.present /\ Len(forPositions.list) > 0
            THEN analyzePositionDistribution(forPositions.list)
            ELSE estimateDistributionFromAggregate(forAggregate)
        againstDistribution ==
            IF againstAggregate.null /\ againstPositions.present /\ Len(againstPositions.list) > 0
            THEN analyzePositionDistribution(againstPositions.list)
            ELSE estimateDistributionFromAggregate(againstAggregate)
        overallDistribution ==
            getWorseDistribution(forDistribution.status, againstDistribution.status)
    IN [trustLevel |-> trust.level, trustRatio |-> trust.ratio,
        forDistribution |-> forDistribution, againstDistribution |-> againstDistribution,
        overallDistribution |-> overallDistribution,
        overallSnapColor |-> DISTRIBUTION_SNAP_COLORS[overallDistribution]]

analyzeTrustDistribution(supportMarketCap, opposeMarketCap, forPositions, againstPositions, forAggregate, againstAggregate) ==
    LET trust == determineTrustLevel(supportMarketCap, opposeMarketCap)
        forDistribution ==
            IF forPositions.present /\ Len(forPositions.list) > 0
            THEN analyzePositionDistribution(forPositions.list)
            ELSE estimateDistributionFromAggregate(forAggregate)
        againstDistribution ==
            IF againstPositions.present /\ Len(againstPositions.list) > 0
            THEN analyzePositionDistribution(againstPositions.list)
            ELSE estimateDistributionFromAggregate(againstAggregate)
        overallDistribution ==
            getWorseDistribution(forDistribution.status, againstDistribution.status)
    IN [trustLevel |-> trust.level, trustRatio |-> trust.ratio,
        forDistribution |-> forDistribution, againstDistribution |-> againstDistribution,
        overallDistribution |-> overallDistribution,
        overallSnapColor |-> DISTRIBUTION_SNAP_COLORS[overallDistribution]]

(***************************************************************************)
(* The trusted-circle state (defined with the service below) and the       *)
(* onTransaction request are not touched by the pure functions.            *)
(***************************************************************************)
circleVars == <<now, cache, pc, raddr, cached, response, contacts, ret,
                queries, writes, lastSet, tx>>

(***************************************************************************)
(* Calls of the pure functions of distribution.ts: the caller picks the    *)
(* arguments, the call leaves its arguments and result in `call`.          *)
(***************************************************************************)
Idle == [op |-> "idle"]

GiniInputs ==
    {Rat(k, GiniSteps) : k \in 0..GiniSteps}
        \cup {GiniWellDistributed, GiniModerate, GiniConcentrated}
Top1Inputs ==
    {Rat(100 * k, Top1Steps) : k \in 0..Top1Steps} \cup {Rat(Top1Concentrated, 1)}

DetermineStatusCall ==
    /\ call = Idle
    /\ \E gini \in GiniInputs, top1Percent \in Top1Inputs, stakerCount \in 0..MaxStakers :
          call' = [op |-> "determineStatus", gini |-> gini, top1Percent |-> top1Percent,
                   stakerCount |-> stakerCount,
                   result |-> determineStatus(gini, top1Percent, stakerCount)]
    /\ UNCHANGED circleVars

DetermineTrustLevelCall ==
    /\ call = Idle
    /\ \E support \in 0..MaxCap, oppose \in 0..MaxCap :
          call' = [op |-> "determineTrustLevel", support |-> support, oppose |-> oppose,
                   result |-> determineTrustLevel(support, oppose)]
    /\ UNCHANGED circleVars

GetTrustInfoCall ==
    /\ call = Idle
    /\ \E support \in 0..MaxCap, oppose \in 0..MaxCap :
          call' = [op |-> "getTrustInfo", support |-> support, oppose |-> oppose,
                   result |-> getTrustInfo(support, oppose)]
    /\ UNCHANGED circleVars

\* Lists of up to n values of S.
SeqsUpTo(S, n) == UNION {[1..k -> S] : k \in 0..n}

NonIncreasing(s) == \A i \in 1..(Len(s) - 1) : s[i] >= s[i + 1]

\* The lists given to the kernel: every list of up to MaxPositions small values
\* (zero and a negative one among them), and some with stakes in percent.
ShareLists ==
    SeqsUpTo((-1)..MaxShare, MaxPositions)
        \cup {<<0, 0, 300>>, <<300>>, <<100, 100, 100>>, <<90, 5, 5>>, <<5, 90, 5>>,
              <<30, 25, 25, 20>>, <<20, 25, 30, 25>>, <<50, 30, 20>>, <<51, 49>>,
              <<49, 51>>, <<50, 50>>, <<25, 26, 49>>,
              <<3, 3, SignificandLimit>>, <<SignificandLimit, 3, 3>>,
         <<SignificandLimit, 1>>, <<1, 0, SignificandLimit>>}

CalculateGiniCall ==
    /\ call = Idle
    /\ \E values \in ShareLists :
          call' = [op |-> "calculateGini", values |-> values,
                   result |-> calculateGini(values)]
    /\ UNCHANGED circleVars

CalculateNakamotoCall ==
    /\ call = Idle
    /\ \E values \in ShareLists :
          call' = [op |-> "calculateNakamoto", values |-> values,
                   result |-> calculateNakamoto(values)]
    /\ UNCHANGED circleVars

CalculateTopNPercentCall ==
    /\ call = Idle
    /\ \E values \in ShareLists, n \in 0..(MaxPositions + 2) :
          call' = [op |-> "calculateTopNPercent", values |-> values, n |-> n,
                   result |-> calculateTopNPercent(values, n)]
    /\ UNCHANGED circleVars

AnalyzeShareDistributionCall ==
    /\ call = Idle
    /\ \E shares \in ShareLists :
          call' = [op |-> "analyzeShareDistribution", shares |-> shares,
                   result |-> analyzeShareDistribution(shares)]
    /\ UNCHANGED circleVars

\* The shares a position can hold: a stake, zero, a negative number, NaN, or
\* an infinity of either sign.
ShareNumbers == {Num(v) : v \in (-1)..MaxShare} \cup {NaN, Num(Infinity), Num(-Infinity)}

AnalyzePositionDistributionCall ==
    /\ call = Idle
    /\ \E positions \in SeqsUpTo(ShareNumbers, MaxPositions) :
          call' = [op |-> "analyzePositionDistribution", positions |-> positions,
                   result |-> analyzePositionDistribution(positions)]
    /\ UNCHANGED circleVars

Aggregates ==
    {NullAggregate} \cup
    {Aggregate(count, sum, avg) : count \in 0..MaxCount, sum \in {0, 1, MaxShare}, avg \in {0, 1}}
        \cup {Aggregate(count, count, 1) : count \in {10, 11, 100}}

EstimateDistributionFromAggregateCall ==
    /\ call = Idle
    /\ \E aggregate \in Aggregates :
          call' = [op |-> "estimateDistributionFromAggregate", aggregate |-> aggregate,
                   result |-> estimateDistributionFromAggregate(aggregate)]
    /\ UNCHANGED circleVars

\* The Data Provider returns a vault's positions ordered by stake, descending
\* (queries.ts, order_by: {shares: desc}), or the caller has none to pass.
VaultPositions ==
    {NoPositions} \cup
    {Positions([i \in 1..Len(s) |-> Num(s[i])]) :
        s \in {t \in SeqsUpTo({0, 1, MaxShare}, MaxPositions) : NonIncreasing(t)}}

\* The aggregate of a vault: none, or its position count with the stake summed.
VaultAggregates ==
    {NullAggregate} \cup {Aggregate(count, count, 1) : count \in {0, 1, 2, MaxCount}}

MarketCaps == {<<0, 0>>, <<MaxCap, 0>>, <<MaxCap - 1, 1>>, <<1, MaxCap>>}

AnalyzeTrustDistributionCall ==
    /\ call = Idle
    /\ \E caps \in MarketCaps, forPositions \in VaultPositions,
          againstPositions \in VaultPositions,
          forAggregate \in VaultAggregates, againstAggregate \in VaultAggregates :
          call' = [op |-> "analyzeTrustDistribution",
                   supportMarketCap |-> caps[1], opposeMarketCap |-> caps[2],
                   forPositions |-> forPositions, againstPositions |-> againstPositions,
                   forAggregate |-> forAggregate, againstAggregate |-> againstAggregate,
                   result |-> analyzeTrustDistribution(caps[1], caps[2], forPositions,
                                 againstPositions, forAggregate, againstAggregate)]
    /\ UNCHANGED circleVars

\* The call returns to its caller.
Return ==
    /\ call # Idle
    /\ call' = Idle
    /\ UNCHANGED circleVars

(***************************************************************************)
(* Strings of the trusted-circle service.  A string is an account address  *)
(* (42 characters, in an all-lower-case or a mixed-case spelling), a       *)
(* resolved name, the truncated display form of an address, 'Unknown',     *)
(* the empty string, or undefined/null.                                    *)
(***************************************************************************)
Str(k, id, c) == [k |-> k, id |-> id, c |-> c]
Undefined == Str("undefined", 0, "l")
EmptyString == Str("empty", 0, "l")
Unknown == Str("unknown", 0, "l")
Address(id, c) == Str("addr", id, c)
Name(id) == Str("name", id, "l")

\* !value
Falsy(value) == value.k \in {"undefined", "empty"}

\* value.toLowerCase(); value?.toLowerCase() is undefined for undefined
toLowerCase(value) == IF value.k \in {"addr", "trunc"} THEN [value EXCEPT !.c = "l"] ELSE value

\* !!value && /^0x[a-fA-F0-9]{40}$/i.test(value)
isEvmAddress(value) == ~Falsy(value) /\ value.k = "addr"

\* Names of the model are shorter than 12 characters; an address is 42 long.
formatAddress(address) ==
    IF Falsy(address) THEN Unknown
    ELSE IF address.k = "addr" THEN [address EXCEPT !.k = "trunc"]
    ELSE address

(***************************************************************************)
(* fetchTrustedCircleFromAPI: the Data Provider's answer is a list of      *)
(* positions, each on a triple with a subject {label, data} (or on no      *)
(* triple, or with no subject).                                            *)
(***************************************************************************)
RawPosition(shape, data, label) == [shape |-> shape, data |-> data, label |-> label]

\* Mutant: the label is tried before the data field.
ContactOf_LabelFirst(position) ==
    LET walletAddress ==
            IF isEvmAddress(position.label) THEN position.label
            ELSE IF isEvmAddress(position.data) THEN position.data
            ELSE Undefined
    IN [accountId |-> walletAddress,
        label |-> IF Falsy(position.label) THEN walletAddress ELSE position.label]

\* The contact of one position, or none (accountId undefined).
ContactOf(position) ==
    LET walletAddress ==
            IF isEvmAddress(position.data) THEN position.data
            ELSE IF isEvmAddress(position.label) THEN position.label
            ELSE Undefined
    IN [accountId |-> walletAddress,
        label |-> IF Falsy(position.label) THEN walletAddress ELSE position.label]

\* contactMap.has(normalizedAddress)
HasContact(list, normalizedAddress) ==
    \E i \in 1..Len(list) : toLowerCase(list[i].accountId) = normalizedAddress

RECURSIVE ExtractFrom(_, _)
ExtractFrom(positions, contactMap) ==
    IF positions = <<>> THEN contactMap
    ELSE LET position == Head(positions)
             contact == ContactOf(position)
         IN IF position.shape # "triple" THEN ExtractFrom(Tail(positions), contactMap)
            ELSE IF Falsy(contact.accountId) THEN ExtractFrom(Tail(positions), contactMap)
            ELSE IF HasContact(contactMap, toLowerCase(contact.accountId))
                 THEN ExtractFrom(Tail(positions), contactMap)
            ELSE ExtractFrom(Tail(positions), Append(contactMap, contact))

\* Array.from(contactMap.values()) for response.data.positions (|| [] when missing)
ExtractContacts(answer) ==
    IF answer.hasData THEN ExtractFrom(answer.positions, <<>>) ELSE <<>>

\* What became of a query: not answered yet, answered (with or without data),
\* or failed (graphQLQuery throws: fetch rejects, the HTTP status is not ok, or
\* the answer carries GraphQL errors).
NoAnswer == [error |-> "pending", hasData |-> FALSE, positions |-> <<>>]
Answer(positions) == [error |-> "none", hasData |-> TRUE, positions |-> positions]
NoDataAnswer == [error |-> "none", hasData |-> FALSE, positions |-> <<>>]
Failure(kind) == [error |-> kind, hasData |-> FALSE, positions |-> <<>>]
FailureKinds == {"network", "http", "graphql"}

(***************************************************************************)
(* TrustedCircleCache (trusted-circle/cache.ts).                           *)
(***************************************************************************)
CacheTTL == 2

NoEntry == [present |-> FALSE, contacts |-> <<>>, timestamp |-> 0]
Miss == [hit |-> FALSE, contacts |-> <<>>]
Hit(list) == [hit |-> TRUE, contacts |-> list]

\* Mutant: the entry is served however old it is.
getTrustedCircleCache_NoExpiry(state, userAddress, time) ==
    LET entry == state[userAddress]
    IN IF entry.present THEN Hit(entry.contacts) ELSE Miss

\* The entry's contacts unless it is absent or expired; else null.
getTrustedCircleCache(state, userAddress, time) ==
    LET entry == state[userAddress]
    IN IF entry.present /\ time - entry.timestamp < CacheTTL
       THEN Hit(entry.contacts)
       ELSE Miss

\* Stores {contacts, timestamp: now} under userAddress, replacing the entry.
setTrustedCircleCache(state, userAddress, list, time) ==
    [state EXCEPT ![userAddress] =
        [present |-> TRUE, contacts |-> list, timestamp |-> time]]

(***************************************************************************)
(* getTrustedCircle: each request runs from one suspension point (await)   *)
(* to the next; requests interleave at these points.                       *)
(***************************************************************************)
\* Two calls can be in flight at once; a finished call makes room for the next.
Requests == {"r1", "r2"}
Users == {"u1", "u2"}

\* What the Data Provider may answer to the trusted-circle query.
CircleAnswers ==
    LET named == RawPosition("triple", Address(1, "u"), Name(1))
        again == RawPosition("triple", Address(1, "l"), Address(1, "l"))
        plain == RawPosition("triple", EmptyString, Address(2, "l"))
        both == RawPosition("triple", Address(3, "u"), Address(2, "l"))
        neither == RawPosition("triple", Name(3), Name(3))
        offTriple == RawPosition("no-triple", Address(3, "l"), Address(3, "l"))
        noSubject == RawPosition("no-subject", Undefined, Undefined)
    IN {NoDataAnswer, Answer(<<>>), Answer(<<named>>),
        Answer(<<offTriple, noSubject, neither, named, again, plain, both>>)}

NotReturned == [kind |-> "none", list |-> <<>>, error |-> "none"]
Returned(list) == [kind |-> "returned", list |-> list, error |-> "none"]
Threw(error) == [kind |-> "threw", list |-> <<>>, error |-> error]

NeverSet == [present |-> FALSE, contacts |-> <<>>, time |-> 0]

pureVars == <<call, tx>>

\* getTrustedCircle(userAddress) is called.
CallGetTrustedCircle(r) ==
    /\ pc[r] = "idle"
    /\ \E userAddress \in Users : raddr' = [raddr EXCEPT ![r] = userAddress]
    /\ pc' = [pc EXCEPT ![r] = "read"]
    /\ UNCHANGED <<now, cache, cached, response, contacts, ret, queries, writes, lastSet>>
    /\ UNCHANGED pureVars

\* Mutant: the cached list is read but the request goes on to the query.
CacheRead_NoShortCircuit(r) ==
    LET got == getTrustedCircleCache(cache, raddr[r], now)
    IN /\ pc[r] = "read"
       /\ cached' = [cached EXCEPT ![r] = got]
       /\ pc' = [pc EXCEPT ![r] = "fetch"]
       /\ UNCHANGED <<now, cache, raddr, response, contacts, ret, queries, writes, lastSet>>
       /\ UNCHANGED pureVars

\* Mutant: a cached list without contacts is treated as a miss.
CacheRead_EmptyIsMiss(r) ==
    LET got == getTrustedCircleCache(cache, raddr[r], now)
    IN /\ pc[r] = "read"
       /\ cached' = [cached EXCEPT ![r] = got]
       /\ IF got.hit /\ got.contacts # <<>>
          THEN /\ pc' = [pc EXCEPT ![r] = "done"]
               /\ ret' = [ret EXCEPT ![r] = Returned(got.contacts)]
          ELSE /\ pc' = [pc EXCEPT ![r] = "fetch"]
               /\ UNCHANGED ret
       /\ UNCHANGED <<now, cache, raddr, response, contacts, queries, writes, lastSet>>
       /\ UNCHANGED pureVars

\* const cached = await getTrustedCircleCache(userAddress);
\* if (cached !== null) return cached;
CacheRead(r) ==
    LET got == getTrustedCircleCache(cache, raddr[r], now)
    IN /\ pc[r] = "read"
       /\ cached' = [cached EXCEPT ![r] = got]
       /\ IF got.hit
          THEN /\ pc' = [pc EXCEPT ![r] = "done"]
               /\ ret' = [ret EXCEPT ![r] = Returned(got.contacts)]
          ELSE /\ pc' = [pc EXCEPT ![r] = "fetch"]
               /\ UNCHANGED ret
       /\ UNCHANGED <<now, cache, raddr, response, contacts, queries, writes, lastSet>>
       /\ UNCHANGED pureVars

\* const contacts = await fetchTrustedCircleFromAPI(userAddress);  (the query answers)
QueryAnswers(r) ==
    /\ pc[r] = "fetch"
    /\ \E answer \in CircleAnswers :
          /\ response' = [response EXCEPT ![r] = answer]
          /\ contacts' = [contacts EXCEPT ![r] = ExtractContacts(answer)]
    /\ queries' = [queries EXCEPT ![r] = @ + 1]
    /\ pc' = [pc EXCEPT ![r] = "write"]
    /\ UNCHANGED <<now, cache, raddr, cached, ret, writes, lastSet>>
    /\ UNCHANGED pureVars

\* Mutant: the failure is caught and an empty circle takes its place.
QueryFails_Swallowed(r) ==
    /\ pc[r] = "fetch"
    /\ \E kind \in FailureKinds : response' = [response EXCEPT ![r] = Failure(kind)]
    /\ contacts' = [contacts EXCEPT ![r] = <<>>]
    /\ queries' = [queries EXCEPT ![r] = @ + 1]
    /\ pc' = [pc EXCEPT ![r] = "write"]
    /\ UNCHANGED <<now, cache, raddr, cached, ret, writes, lastSet>>
    /\ UNCHANGED pureVars

\* The query fails: graphQLQuery throws, and neither fetchTrustedCircleFromAPI
\* nor getTrustedCircle catches.
QueryFails(r) ==
    /\ pc[r] = "fetch"
    /\ \E kind \in FailureKinds :
          /\ response' = [response EXCEPT ![r] = Failure(kind)]
          /\ ret' = [ret EXCEPT ![r] = Threw(kind)]
    /\ queries' = [queries EXCEPT ![r] = @ + 1]
    /\ pc' = [pc EXCEPT ![r] = "failed"]
    /\ UNCHANGED <<now, cache, raddr, cached, contacts, writes, lastSet>>
    /\ UNCHANGED pureVars

\* Mutant: the fetched contacts are added to the entry already there.
CacheWrite_Merge(r) ==
    /\ pc[r] = "write"
    /\ cache' = setTrustedCircleCache(cache, raddr[r],
                                       cache[raddr[r]].contacts \o contacts[r], now)
    /\ writes' = [writes EXCEPT ![r] = Append(@, contacts[r])]
    /\ lastSet' = [lastSet EXCEPT ![raddr[r]] =
                      [present |-> TRUE, contacts |-> contacts[r], time |-> now]]
    /\ ret' = [ret EXCEPT ![r] = Returned(contacts[r])]
    /\ pc' = [pc EXCEPT ![r] = "done"]
    /\ UNCHANGED <<now, raddr, cached, response, contacts, queries>>
    /\ UNCHANGED pureVars

\* await setTrustedCircleCache(userAddress, contacts); return contacts;
CacheWrite(r) ==
    /\ pc[r] = "write"
    /\ cache' = setTrustedCircleCache(cache, raddr[r], contacts[r], now)
    /\ writes' = [writes EXCEPT ![r] = Append(@, contacts[r])]
    /\ lastSet' = [lastSet EXCEPT ![raddr[r]] =
                      [present |-> TRUE, contacts |-> contacts[r], time |-> now]]
    /\ ret' = [ret EXCEPT ![r] = Returned(contacts[r])]
    /\ pc' = [pc EXCEPT ![r] = "done"]
    /\ UNCHANGED <<now, raddr, cached, response, contacts, queries>>
    /\ UNCHANGED pureVars

\* The caller has its result (or its exception); the next call starts afresh.
Finish(r) ==
    /\ pc[r] \in {"done", "failed"}
    /\ pc' = [pc EXCEPT ![r] = "idle"]
    /\ raddr' = [raddr EXCEPT ![r] = "u1"]
    /\ cached' = [cached EXCEPT ![r] = Miss]
    /\ response' = [response EXCEPT ![r] = NoAnswer]
    /\ contacts' = [contacts EXCEPT ![r] = <<>>]
    /\ ret' = [ret EXCEPT ![r] = NotReturned]
    /\ queries' = [queries EXCEPT ![r] = 0]
    /\ writes' = [writes EXCEPT ![r] = <<>>]
    /\ UNCHANGED <<now, cache, lastSet>>
    /\ UNCHANGED pureVars

\* Time passes.
Tick ==
    /\ now < MaxTime
    /\ now' = now + 1
    /\ UNCHANGED <<cache, pc, raddr, cached, response, contacts, ret, queries, writes, lastSet>>
    /\ UNCHANGED pureVars

(***************************************************************************)
(* getTrustedContactsWithPositions: the cross-reference of a trusted       *)
(* circle with the positions on the two sides of a triple.  A position is  *)
(* {account_id, shares?, account?: {label}}; shares is a decimal string,   *)
(* a string BigInt cannot parse, the empty string, or missing.             *)
(***************************************************************************)
NoShares == [k |-> "missing", v |-> 0]
ShareString(v) == [k |-> "int", v |-> v]
BadShares == [k |-> "bad", v |-> 0]
EmptyShares == [k |-> "empty", v |-> 0]

PositionWithAccount(account_id, shares, label) == [account_id |-> account_id, shares |-> shares, label |-> label]

\* position.shares || '0'
SharesOrZero(shares) == IF shares.k \in {"missing", "empty"} THEN ShareString(0) ELSE shares

\* new Map(trustedCircle.map((c) => [c.accountId.toLowerCase(), c.label])).get(accountId):
\* of two entries with one key the later one stays.
TrustedLabel(trustedCircle, accountId) ==
    LET matches == {i \in 1..Len(trustedCircle) : toLowerCase(trustedCircle[i].accountId) = accountId}
    IN IF matches = {} THEN Undefined
       ELSE trustedCircle[CHOOSE i \in matches : \A j \in matches : j <= i].label

\* trustedLabels.get(accountId) || position.account?.label || formatAddress(position.account_id)
PositionLabel(trustedCircle, position) ==
    LET known == TrustedLabel(trustedCircle, toLowerCase(position.account_id))
    IN IF ~Falsy(known) THEN known
       ELSE IF ~Falsy(position.label) THEN position.label
       ELSE formatAddress(position.account_id)

\* Mutant: the user's own position is not skipped.
RECURSIVE FilterTrusted_KeepUser(_, _, _)
FilterTrusted_KeepUser(trustedCircle, positions, userAddress) ==
    IF positions = <<>> THEN <<>>
    ELSE LET position == Head(positions)
             accountId == toLowerCase(position.account_id)
             rest == FilterTrusted_KeepUser(trustedCircle, Tail(positions), userAddress)
         IN IF ~Falsy(accountId) /\ HasContact(trustedCircle, accountId)
            THEN <<[accountId |-> position.account_id,
                    label |-> PositionLabel(trustedCircle, position),
                    shares |-> SharesOrZero(position.shares)]>> \o rest
            ELSE rest

\* The loop over one side's positions.
RECURSIVE FilterTrusted(_, _, _)
FilterTrusted(trustedCircle, positions, userAddress) ==
    IF positions = <<>> THEN <<>>
    ELSE LET position == Head(positions)
             accountId == toLowerCase(position.account_id)
             rest == FilterTrusted(trustedCircle, Tail(positions), userAddress)
         IN IF accountId = toLowerCase(userAddress) THEN rest
            ELSE IF ~Falsy(accountId) /\ HasContact(trustedCircle, accountId)
            THEN <<[accountId |-> position.account_id,
                    label |-> PositionLabel(trustedCircle, position),
                    shares |-> SharesOrZero(position.shares)]>> \o rest
            ELSE rest

\* BigInt(shares) throws a SyntaxError on a string that is not an integer; the
\* comparator runs as soon as the list has two elements, on every element.
SortThrows(list) == Len(list) >= 2 /\ \E i \in 1..Len(list) : list[i].shares.k = "bad"

\* The place of a contact among those sorted so far: Array.prototype.sort is
\* stable, so it goes behind every contact with as many shares or more.
\* Mutant: the shares are compared as floating-point numbers.
RECURSIVE InsertByShares_Float(_, _)
InsertByShares_Float(sorted, contact) ==
    IF sorted = <<>> THEN <<contact>>
    ELSE IF RoundToSignificand(Head(sorted).shares.v) >= RoundToSignificand(contact.shares.v)
         THEN <<Head(sorted)>> \o InsertByShares_Float(Tail(sorted), contact)
         ELSE <<contact>> \o sorted

RECURSIVE InsertByShares(_, _)
InsertByShares(sorted, contact) ==
    IF sorted = <<>> THEN <<contact>>
    ELSE IF Head(sorted).shares.v >= contact.shares.v
         THEN <<Head(sorted)>> \o InsertByShares(Tail(sorted), contact)
         ELSE <<contact>> \o sorted

RECURSIVE SortFrom(_, _)
SortFrom(list, sorted) ==
    IF list = <<>> THEN sorted
    ELSE SortFrom(Tail(list), InsertByShares(sorted, Head(list)))

\* list.sort by BigInt(shares), highest first
SortByShares(list) == IF Len(list) < 2 THEN list ELSE SortFrom(list, <<>>)

\* The function either returns {forContacts, againstContacts} or throws.
getTrustedContactsWithPositions(trustedCircle, forPositions, againstPositions, userAddress) ==
    LET forContacts == FilterTrusted(trustedCircle, forPositions, userAddress)
        againstContacts == FilterTrusted(trustedCircle, againstPositions, userAddress)
    IN IF SortThrows(forContacts) \/ SortThrows(againstContacts)
       THEN [threw |-> TRUE, forContacts |-> <<>>, againstContacts |-> <<>>]
       ELSE [threw |-> FALSE,
             forContacts |-> SortByShares(forContacts),
             againstContacts |-> SortByShares(againstContacts)]

(***************************************************************************)
(* enrichContactLabels: one query for the atoms of the contacts' addresses *)
(* and a relabelling of the contacts, with a fallback when the query fails.*)
(***************************************************************************)
\* /^0x[a-fA-F0-9]{40}$/iu.test(value)
AddressPattern(value) == value.k = "addr"

Atom(label, data) == [label |-> label, data |-> data]
AtomsAnswer(atoms) == [error |-> "none", hasData |-> TRUE, atoms |-> atoms]
AtomsNoData == [error |-> "none", hasData |-> FALSE, atoms |-> <<>>]
AtomsFailure(kind) == [error |-> kind, hasData |-> FALSE, atoms |-> <<>>]
AtomsNotQueried == [error |-> "not queried", hasData |-> FALSE, atoms |-> <<>>]

\* The loop that fills labelMap; the map is its list of set() calls.
RECURSIVE BuildLabelMap(_, _)
BuildLabelMap(atoms, labelMap) ==
    IF atoms = <<>> THEN labelMap
    ELSE LET atom == Head(atoms)
             addressFromData == toLowerCase(atom.data)
             addressFromLabel == toLowerCase(atom.label)
             isResolvedName == ~Falsy(atom.label) /\ ~AddressPattern(atom.label)
             withData == IF ~Falsy(addressFromData) /\ isResolvedName
                         THEN Append(labelMap, [key |-> addressFromData, label |-> atom.label])
                         ELSE labelMap
             withLabel == IF ~Falsy(addressFromLabel) /\ isResolvedName
                              /\ addressFromLabel # addressFromData
                          THEN Append(withData, [key |-> addressFromLabel, label |-> atom.label])
                          ELSE withData
         IN BuildLabelMap(Tail(atoms), withLabel)

\* labelMap.get(key): the label of the last set() for the key, or undefined
LabelMapGet(labelMap, key) ==
    LET matches == {i \in 1..Len(labelMap) : labelMap[i].key = key}
    IN IF matches = {} THEN Undefined
       ELSE labelMap[CHOOSE i \in matches : \A j \in matches : j <= i].label

enrichContact(labelMap, contact) ==
    LET resolvedLabel == LabelMapGet(labelMap, toLowerCase(contact.accountId))
    IN IF ~Falsy(resolvedLabel) THEN [contact EXCEPT !.label = resolvedLabel]
       ELSE IF AddressPattern(contact.label)
            THEN [contact EXCEPT !.label = formatAddress(contact.label)]
       ELSE contact

\* Mutant: the fallback truncates nothing.
formatContact_Keep(contact) == contact

formatContact(contact) ==
    IF AddressPattern(contact.label)
    THEN [contact EXCEPT !.label = formatAddress(contact.label)]
    ELSE contact

\* The positions returned, with the number of queries made on the way.
enrichContactLabels(positions, answer) ==
    IF Len(positions.forContacts) + Len(positions.againstContacts) = 0
    THEN [threw |-> FALSE, queries |-> 0, positions |-> positions]
    ELSE IF answer.error \in FailureKinds
    THEN [threw |-> FALSE, queries |-> 1,
          positions |->
             [forContacts |-> [i \in 1..Len(positions.forContacts) |->
                                  formatContact(positions.forContacts[i])],
              againstContacts |-> [i \in 1..Len(positions.againstContacts) |->
                                      formatContact(positions.againstContacts[i])]]]
    ELSE LET atoms == IF answer.hasData THEN answer.atoms ELSE <<>>
             labelMap == BuildLabelMap(atoms, <<>>)
         IN [threw |-> FALSE, queries |-> 1,
             positions |->
                [forContacts |-> [i \in 1..Len(positions.forContacts) |->
                                     enrichContact(labelMap, positions.forContacts[i])],
                 againstContacts |-> [i \in 1..Len(positions.againstContacts) |->
                                         enrichContact(labelMap, positions.againstContacts[i])]]]

(***************************************************************************)
(* getNetworkFamiliarity: one query for all claims about the target, and   *)
(* the trusted contacts holding a position on any of them.                 *)
(***************************************************************************)
UnknownLabel == Str("name", 0, "l")

Triple(predicate, object, positions, counter_positions) == [predicate |-> predicate, object |-> object, positions |-> positions, counter_positions |-> counter_positions]
TriplesAnswer(triples) == [error |-> "none", hasData |-> TRUE, triples |-> triples]
TriplesNoData == [error |-> "none", hasData |-> FALSE, triples |-> <<>>]
TriplesFailure(kind) == [error |-> kind, hasData |-> FALSE, triples |-> <<>>]
TriplesNotQueried == [error |-> "not queried", hasData |-> FALSE, triples |-> <<>>]

\* The claim of a triple: label || 'unknown' for predicate and object.
ClaimOf(triple) ==
    [predicateLabel |-> IF Falsy(triple.predicate) THEN UnknownLabel ELSE triple.predicate,
     objectLabel |-> IF Falsy(triple.object) THEN UnknownLabel ELSE triple.object]

\* existing.claims.some(...)
HasClaim(claims, claim) == \E i \in 1..Len(claims) : claims[i] = claim

\* Mutant: a claim is recorded again each time the contact is met on it.
RecordAccount_NoDedup(map, accountId, claim, trustedCircle, alreadyDisplayedIds, userAddress) ==
    LET normalized == toLowerCase(accountId)
        found == {i \in 1..Len(map) : map[i].key = normalized}
    IN IF normalized = toLowerCase(userAddress) THEN map
       ELSE IF normalized \in alreadyDisplayedIds THEN map
       ELSE IF ~HasContact(trustedCircle, normalized) THEN map
       ELSE IF found # {}
            THEN LET i == CHOOSE i \in found : TRUE
                 IN [map EXCEPT ![i].claims = Append(@, claim)]
       ELSE LET known == TrustedLabel(trustedCircle, normalized)
            IN Append(map, [key |-> normalized,
                            accountId |-> accountId,
                            label |-> IF ~Falsy(known) THEN known ELSE formatAddress(accountId),
                            claims |-> <<claim>>])

\* One account of one triple against contactClaimsMap (kept in insertion order).
RecordAccount(map, accountId, claim, trustedCircle, alreadyDisplayedIds, userAddress) ==
    LET normalized == toLowerCase(accountId)
        found == {i \in 1..Len(map) : map[i].key = normalized}
    IN IF normalized = toLowerCase(userAddress) THEN map
       ELSE IF normalized \in alreadyDisplayedIds THEN map
       ELSE IF ~HasContact(trustedCircle, normalized) THEN map
       ELSE IF found # {}
            THEN LET i == CHOOSE i \in found : TRUE
                 IN IF HasClaim(map[i].claims, claim) THEN map
                    ELSE [map EXCEPT ![i].claims = Append(@, claim)]
       ELSE LET known == TrustedLabel(trustedCircle, normalized)
            IN Append(map, [key |-> normalized,
                            accountId |-> accountId,
                            label |-> IF ~Falsy(known) THEN known ELSE formatAddress(accountId),
                            claims |-> <<claim>>])

RECURSIVE RecordAccounts(_, _, _, _, _, _)
RecordAccounts(map, accounts, claim, trustedCircle, alreadyDisplayedIds, userAddress) ==
    IF accounts = <<>> THEN map
    ELSE RecordAccounts(
             RecordAccount(map, Head(accounts), claim, trustedCircle, alreadyDisplayedIds, userAddress),
             Tail(accounts), claim, trustedCircle, alreadyDisplayedIds, userAddress)

RECURSIVE RecordTriples(_, _, _, _, _)
RecordTriples(map, triples, trustedCircle, alreadyDisplayedIds, userAddress) ==
    IF triples = <<>> THEN map
    ELSE LET triple == Head(triples)
             allPositionAccounts == triple.positions \o triple.counter_positions
         IN RecordTriples(
                RecordAccounts(map, allPositionAccounts, ClaimOf(triple),
                               trustedCircle, alreadyDisplayedIds, userAddress),
                Tail(triples), trustedCircle, alreadyDisplayedIds, userAddress)

\* Array.from(contactClaimsMap.values())
FamiliarContacts(map) ==
    [i \in 1..Len(map) |-> [accountId |-> map[i].accountId, label |-> map[i].label, claims |-> map[i].claims]]

NoFamiliarity(made) == [threw |-> FALSE, defined |-> FALSE, queries |-> made, familiarContacts |-> <<>>, totalClaimsAboutAddress |-> 0]

\* Mutant: the result is built even when no contact was collected.
getNetworkFamiliarity_ReturnEmpty(trustedCircle, alreadyDisplayedIds, userAddress, answer) ==
    IF Len(trustedCircle) = 0 THEN NoFamiliarity(0)
    ELSE IF answer.error \in FailureKinds THEN NoFamiliarity(1)
    ELSE LET triples == IF answer.hasData THEN answer.triples ELSE <<>>
             familiarContacts ==
                 FamiliarContacts(RecordTriples(<<>>, triples, trustedCircle,
                                                alreadyDisplayedIds, userAddress))
         IN IF Len(triples) = 0 THEN NoFamiliarity(1)
            ELSE [threw |-> FALSE, defined |-> TRUE, queries |-> 1,
                  familiarContacts |-> familiarContacts,
                  totalClaimsAboutAddress |-> Len(triples)]

\* The result (undefined, or {familiarContacts, totalClaimsAboutAddress}) with
\* the number of queries made on the way.
getNetworkFamiliarity(trustedCircle, alreadyDisplayedIds, userAddress, answer) ==
    IF Len(trustedCircle) = 0 THEN NoFamiliarity(0)
    ELSE IF answer.error \in FailureKinds THEN NoFamiliarity(1)
    ELSE LET triples == IF answer.hasData THEN answer.triples ELSE <<>>
             familiarContacts ==
                 FamiliarContacts(RecordTriples(<<>>, triples, trustedCircle,
                                                alreadyDisplayedIds, userAddress))
         IN IF Len(triples) = 0 THEN NoFamiliarity(1)
            ELSE IF Len(familiarContacts) = 0 THEN NoFamiliarity(1)
            ELSE [threw |-> FALSE, defined |-> TRUE, queries |-> 1,
                  familiarContacts |-> familiarContacts,
                  totalClaimsAboutAddress |-> Len(triples)]

(***************************************************************************)
(* Calls of the three service functions.                                   *)
(***************************************************************************)
TrustedCircles ==
    {<<>>,
     <<[accountId |-> Address(1, "u"), label |-> Name(1)]>>,
     <<[accountId |-> Address(1, "l"), label |-> Address(1, "l")],
       [accountId |-> Address(2, "l"), label |-> Name(2)]>>,
     <<[accountId |-> Address(2, "u"), label |-> EmptyString]>>}

UserAddresses == {Undefined, Address(1, "l"), Address(1, "u")}

HolderIds == {Undefined, Address(1, "l"), Address(1, "u"), Address(2, "u"), Address(3, "l")}

ShareStrings == {NoShares, ShareString(1), ShareString(2), BadShares}

\* More shares strings, held by one account: the empty string, a negative
\* number, and two stakes that are one number when read as floating point.
MoreShareStrings ==
    {EmptyShares, ShareString(-1), ShareString(SignificandLimit), ShareString(SignificandLimit + 1)}

PositionRecords ==
    {PositionWithAccount(a, sh, Undefined) : a \in HolderIds, sh \in ShareStrings}
        \cup {PositionWithAccount(Address(2, "u"), ShareString(1), Name(2))}
        \cup {PositionWithAccount(Address(2, "u"), sh, Undefined) : sh \in MoreShareStrings}

\* The two sides of a triple, with at most n entries between them.
SidePairs(S, n) ==
    UNION {[1..kj[1] -> S] \X [1..kj[2] -> S] : kj \in {x \in (0..n) \X (0..n) : x[1] + x[2] <= n}}

GetTrustedContactsWithPositionsCall ==
    /\ call = Idle
    /\ \E trustedCircle \in TrustedCircles, sides \in SidePairs(PositionRecords, MaxHolders),
          userAddress \in UserAddresses :
          call' = [op |-> "getTrustedContactsWithPositions",
                   trustedCircle |-> trustedCircle,
                   forPositions |-> sides[1],
                   againstPositions |-> sides[2],
                   userAddress |-> userAddress,
                   result |-> getTrustedContactsWithPositions(trustedCircle, sides[1],
                                                              sides[2], userAddress)]
    /\ UNCHANGED circleVars

Contacts ==
    {[accountId |-> a, label |-> l, shares |-> ShareString(1)] :
        a \in {Address(1, "u"), Address(2, "l")},
        l \in {Name(1), Address(2, "l"), [Address(2, "l") EXCEPT !.k = "trunc"]}}

Atoms ==
    {Atom(Name(3), Address(1, "u")),
     Atom(Address(2, "l"), Address(2, "l")),
     Atom(Name(2), Undefined),
     Atom(Undefined, Address(2, "l"))}

AtomsResponses ==
    {AtomsFailure(kind) : kind \in FailureKinds} \cup {AtomsNoData}
        \cup {AtomsAnswer(atoms) : atoms \in SeqsUpTo(Atoms, MaxAtoms)}

EnrichContactLabelsCall ==
    /\ call = Idle
    /\ \E sides \in SidePairs(Contacts, MaxContacts), answer \in AtomsResponses :
          LET positions == [forContacts |-> sides[1], againstContacts |-> sides[2]]
              result == enrichContactLabels(positions, answer)
          IN call' = [op |-> "enrichContactLabels",
                      positions |-> positions,
                      response |-> IF result.queries = 0 THEN AtomsNotQueried ELSE answer,
                      result |-> result]
    /\ UNCHANGED circleVars

ClaimLabels == {<<Name(4), Name(5)>>, <<Name(4), Name(6)>>, <<Undefined, Name(5)>>}

Triples ==
    {Triple(labels[1], labels[2], positions, counter_positions) :
        labels \in ClaimLabels,
        positions \in {<<>>, <<Address(1, "u")>>, <<Address(2, "l"), Address(3, "l")>>},
        counter_positions \in {<<>>, <<Address(2, "u")>>}}

TriplesResponses ==
    {TriplesFailure(kind) : kind \in FailureKinds} \cup {TriplesNoData}
        \cup {TriplesAnswer(triples) : triples \in SeqsUpTo(Triples, MaxTriples)}

DisplayedIds == {{}, {Address(2, "l")}}

GetNetworkFamiliarityCall ==
    /\ call = Idle
    /\ \E trustedCircle \in TrustedCircles, alreadyDisplayedIds \in DisplayedIds,
          userAddress \in UserAddresses, answer \in TriplesResponses :
          LET result == getNetworkFamiliarity(trustedCircle, alreadyDisplayedIds,
                                              userAddress, answer)
          IN call' = [op |-> "getNetworkFamiliarity",
                      trustedCircle |-> trustedCircle,
                      alreadyDisplayedIds |-> alreadyDisplayedIds,
                      userAddress |-> userAddress,
                      response |-> IF result.queries = 0 THEN TriplesNotQueried ELSE answer,
                      result |-> result]
    /\ UNCHANGED circleVars

(***************************************************************************)
(* Specifications.                                                         *)
(***************************************************************************)
(***************************************************************************)
(* onTransaction (onTransaction.tsx).  The request runs from one await to  *)
(* the next.  The account and origin lookups (getAccountData,              *)
(* getOriginData) and the trusted-circle lookup (getTrustedCircle) are     *)
(* asynchronous operations of which each resolves with some data or        *)
(* rejects; the data of a lookup is whether the claim (the trust triple of *)
(* the account or of the origin) exists, and its positions.                *)
(***************************************************************************)
TxClaims == {"account", "origin"}

NoTripleData == [triple |-> FALSE, positions |-> <<>>, counter_positions |-> <<>>]
TripleData(positions, counter_positions) == [triple |-> TRUE, positions |-> positions, counter_positions |-> counter_positions]

\* A lookup: not started, pending, resolved with a value, or rejected.
Lookup(state, value) == [state |-> state, value |-> value]

\* accountTrustedCircle / originTrustedCircle: undefined, or the two lists.
NoCirclePositions == [present |-> FALSE, forContacts |-> <<>>, againstContacts |-> <<>>]
CirclePositions(lists) == [present |-> TRUE, forContacts |-> lists.forContacts, againstContacts |-> lists.againstContacts]

\* No request in progress.  claim is the claim being cross-referenced, circles
\* the two locals accountTrustedCircle and originTrustedCircle, props the
\* trustedCircle fields of the props the interface is created from; enrichCalls
\* and interfaces count the calls of enrichContactLabels and of
\* snap_createInterface made by the request.
TxIdle ==
    [pc |-> "idle", claim |-> "account", userAddress |-> Undefined,
     account |-> Lookup("idle", NoTripleData),
     origin |-> Lookup("idle", NoTripleData),
     trustedCircle |-> Lookup("idle", <<>>),
     circles |-> [c \in TxClaims |-> NoCirclePositions],
     props |-> [c \in TxClaims |-> NoCirclePositions],
     enrichCalls |-> [c \in TxClaims |-> 0],
     interfaces |-> 0]

\* transaction.from
TxUserAddresses == {Undefined, Address(1, "l")}

\* What a lookup of a claim may resolve with: no triple, a triple nobody holds,
\* one held by a contact, one held by the user and a stranger, and one held
\* twice by a contact, once with a shares string that is not an integer.
TxTripleDatas ==
    LET held == PositionWithAccount(Address(2, "u"), ShareString(1), Undefined)
        own == PositionWithAccount(Address(1, "l"), ShareString(2), Undefined)
        stranger == PositionWithAccount(Address(3, "l"), ShareString(1), Undefined)
        unparsable == PositionWithAccount(Address(2, "u"), BadShares, Undefined)
    IN {NoTripleData, TripleData(<<>>, <<>>), TripleData(<<held>>, <<>>),
        TripleData(<<own>>, <<stranger>>), TripleData(<<>>, <<unparsable, held>>)}

\* What the trusted-circle lookup may resolve with.
TxCircles ==
    {<<>>,
     <<[accountId |-> Address(1, "u"), label |-> Name(1)]>>,
     <<[accountId |-> Address(1, "l"), label |-> Address(1, "l")],
       [accountId |-> Address(2, "l"), label |-> Name(2)]>>}

\* What the Data Provider may answer to the atoms query of enrichContactLabels.
TxAtomsResponses ==
    {AtomsFailure("network"), AtomsNoData, AtomsAnswer(<<Atom(Name(2), Address(2, "l"))>>)}

serviceVars == <<call, now, cache, pc, raddr, cached, response, contacts, ret,
                 queries, writes, lastSet>>

\* The handler is called: the three lookups are started, in one go, as the
\* elements of the array given to Promise.all; without a user address the
\* third one is Promise.resolve([]).
OnTransaction ==
    /\ tx.pc = "idle"
    /\ \E userAddress \in TxUserAddresses :
          tx' = [TxIdle EXCEPT
                    !.pc = "join",
                    !.userAddress = userAddress,
                    !.account = Lookup("pending", NoTripleData),
                    !.origin = Lookup("pending", NoTripleData),
                    !.trustedCircle = IF Falsy(userAddress) THEN Lookup("resolved", <<>>)
                                      ELSE Lookup("pending", <<>>)]
    /\ UNCHANGED serviceVars

\* getAccountData / getOriginData resolves.
LookupResolves(c) ==
    /\ tx.pc = "join"
    /\ tx[c].state = "pending"
    /\ \E data \in TxTripleDatas : tx' = [tx EXCEPT ![c] = Lookup("resolved", data)]
    /\ UNCHANGED serviceVars

\* getAccountData / getOriginData rejects.
LookupRejects(c) ==
    /\ tx.pc = "join"
    /\ tx[c].state = "pending"
    /\ tx' = [tx EXCEPT ![c] = Lookup("rejected", NoTripleData)]
    /\ UNCHANGED serviceVars

\* getTrustedCircle resolves.
CircleResolves ==
    /\ tx.pc = "join"
    /\ tx.trustedCircle.state = "pending"
    /\ \E circle \in TxCircles : tx' = [tx EXCEPT !.trustedCircle = Lookup("resolved", circle)]
    /\ UNCHANGED serviceVars

\* getTrustedCircle rejects (the Data Provider query failed).
CircleRejects ==
    /\ tx.pc = "join"
    /\ tx.trustedCircle.state = "pending"
    /\ tx' = [tx EXCEPT !.trustedCircle = Lookup("rejected", <<>>)]
    /\ UNCHANGED serviceVars

\* await Promise.all([...]) resolves: all three lookups have resolved.
Join ==
    /\ tx.pc = "join"
    /\ tx.account.state = "resolved"
    /\ tx.origin.state = "resolved"
    /\ tx.trustedCircle.state = "resolved"
    /\ tx' = [tx EXCEPT !.pc = "xref", !.claim = "account"]
    /\ UNCHANGED serviceVars

\* await Promise.all([...]) rejects as soon as one lookup has: the handler throws.
JoinRejects ==
    /\ tx.pc = "join"
    /\ "rejected" \in {tx.account.state, tx.origin.state, tx.trustedCircle.state}
    /\ tx' = [tx EXCEPT !.pc = "failed"]
    /\ UNCHANGED serviceVars

\* The request after the block of one claim: the origin's block follows the
\* account's, the rendering follows the origin's.
AfterClaim(request, c) ==
    IF c = "account" THEN [request EXCEPT !.pc = "xref", !.claim = "origin"]
    ELSE [request EXCEPT !.pc = "create"]

\* Mutant: the labels are enriched also when no contact holds a position.
CrossReference_AlwaysEnrich(c) ==
    /\ tx.pc = "xref"
    /\ tx.claim = c
    /\ LET data == tx[c].value
           trustedCircle == tx.trustedCircle.value
           lists == getTrustedContactsWithPositions(trustedCircle, data.positions,
                                                    data.counter_positions, tx.userAddress)
       IN IF Len(trustedCircle) > 0 /\ data.triple
          THEN IF lists.threw THEN tx' = [tx EXCEPT !.pc = "failed"]
               ELSE tx' = [tx EXCEPT !.pc = "enrich",
                                     !.circles[c] = CirclePositions(lists),
                                     !.enrichCalls[c] = @ + 1]
          ELSE tx' = AfterClaim(tx, c)
    /\ UNCHANGED serviceVars

\* if (trustedCircle.length > 0 && data.triple) { ... }: the cross-reference of
\* one claim, up to the await of enrichContactLabels if it is reached.
CrossReference(c) ==
    /\ tx.pc = "xref"
    /\ tx.claim = c
    /\ LET data == tx[c].value
           trustedCircle == tx.trustedCircle.value
           lists == getTrustedContactsWithPositions(trustedCircle, data.positions,
                                                    data.counter_positions, tx.userAddress)
       IN IF Len(trustedCircle) > 0 /\ data.triple
          THEN IF lists.threw THEN tx' = [tx EXCEPT !.pc = "failed"]
               ELSE IF Len(lists.forContacts) = 0 /\ Len(lists.againstContacts) = 0
               THEN tx' = AfterClaim(tx, c)
               ELSE tx' = [tx EXCEPT !.pc = "enrich",
                                     !.circles[c] = CirclePositions(lists),
                                     !.enrichCalls[c] = @ + 1]
          ELSE tx' = AfterClaim(tx, c)
    /\ UNCHANGED serviceVars

\* await enrichContactLabels(...) returns.
EnrichReturns(c) ==
    /\ tx.pc = "enrich"
    /\ tx.claim = c
    /\ \E answer \in TxAtomsResponses :
          LET lists == [forContacts |-> tx.circles[c].forContacts,
                        againstContacts |-> tx.circles[c].againstContacts]
              enriched == enrichContactLabels(lists, answer)
          IN IF enriched.threw THEN tx' = [tx EXCEPT !.pc = "failed"]
             ELSE tx' = AfterClaim([tx EXCEPT !.circles[c] = CirclePositions(enriched.positions)], c)
    /\ UNCHANGED serviceVars

\* The props are built with trustedCircle: accountTrustedCircle /
\* originTrustedCircle, the sections are rendered, and snap_createInterface is
\* requested.
CreateInterface ==
    /\ tx.pc = "create"
    /\ tx' = [tx EXCEPT !.pc = "done", !.props = tx.circles, !.interfaces = @ + 1]
    /\ UNCHANGED serviceVars

\* The handler has returned the interface id, or thrown.
TxReturn ==
    /\ tx.pc \in {"done", "failed"}
    /\ tx' = TxIdle
    /\ UNCHANGED serviceVars

Init ==
    /\ call = Idle
    /\ tx = TxIdle
    /\ now = 0
    /\ cache = [u \in Users |-> NoEntry]
    /\ pc = [r \in Requests |-> "idle"]
    /\ raddr = [r \in Requests |-> "u1"]
    /\ cached = [r \in Requests |-> Miss]
    /\ response = [r \in Requests |-> NoAnswer]
    /\ contacts = [r \in Requests |-> <<>>]
    /\ ret = [r \in Requests |-> NotReturned]
    /\ queries = [r \in Requests |-> 0]
    /\ writes = [r \in Requests |-> <<>>]
    /\ lastSet = [u \in Users |-> NeverSet]

\* The pure functions of distribution.ts.
Next ==
    \/ CalculateGiniCall
    \/ CalculateNakamotoCall
    \/ CalculateTopNPercentCall
    \/ DetermineStatusCall
    \/ AnalyzeShareDistributionCall
    \/ DetermineTrustLevelCall
    \/ GetTrustInfoCall
    \/ AnalyzePositionDistributionCall
    \/ EstimateDistributionFromAggregateCall
    \/ AnalyzeTrustDistributionCall
    \/ Return

Spec == Init /\ [][Next]_vars

\* Concurrent getTrustedCircle requests over the shared cache.
NextCircle ==
    \/ \E r \in Requests : CallGetTrustedCircle(r)
    \/ \E r \in Requests : CacheRead(r)
    \/ \E r \in Requests : QueryAnswers(r)
    \/ \E r \in Requests : QueryFails(r)
    \/ \E r \in Requests : CacheWrite(r)
    \/ \E r \in Requests : Finish(r)
    \/ Tick

SpecCircle == Init /\ [][NextCircle]_vars

\* The trusted-circle service functions that keep no state between calls.
NextService ==
    \/ GetTrustedContactsWithPositionsCall
    \/ EnrichContactLabelsCall
    \/ GetNetworkFamiliarityCall
    \/ Return

SpecService == Init /\ [][NextService]_vars

\* One onTransaction request at a time.
NextTransaction ==
    \/ OnTransaction
    \/ \E c \in TxClaims : LookupResolves(c)
    \/ \E c \in TxClaims : LookupRejects(c)
    \/ CircleResolves
    \/ CircleRejects
    \/ Join
    \/ JoinRejects
    \/ \E c \in TxClaims : CrossReference(c)
    \/ \E c \in TxClaims : EnrichReturns(c)
    \/ CreateInterface
    \/ TxReturn

SpecTransaction == Init /\ [][NextTransaction]_vars

(***************************************************************************)
(* Properties.                                                             *)
(***************************************************************************)
\* The severity order of the four statuses.
Severity(status) ==
    CASE status = "well-distributed" -> 1
      [] status = "moderate" -> 2
      [] status = "concentrated" -> 3
      [] status = "whale-dominated" -> 4

\* C1: determineStatus follows the first-match decision order: whale-dominated
\* when top1Percent >= 80, whatever the gini and the staker count; otherwise
\* well-distributed for 0 stakers; otherwise concentrated for fewer than 3
\* stakers; otherwise the gini band (<= 0.35 well-distributed, <= 0.55 moderate,
\* <= 0.75 concentrated, above that whale-dominated).
C1_DecisionOrder ==
    call.op = "determineStatus" =>
        LET g == call.gini
            t == call.top1Percent
            n == call.stakerCount
            whale == t[1] >= 80 * t[2]
            byGini == ~whale /\ n >= 3
        IN /\ whale => call.result = "whale-dominated"
           /\ (~whale /\ n = 0) => call.result = "well-distributed"
           /\ (~whale /\ n \in {1, 2}) => call.result = "concentrated"
           /\ (byGini /\ 100 * g[1] <= 35 * g[2]) => call.result = "well-distributed"
           /\ (byGini /\ 100 * g[1] > 35 * g[2] /\ 100 * g[1] <= 55 * g[2])
                 => call.result = "moderate"
           /\ (byGini /\ 100 * g[1] > 55 * g[2] /\ 100 * g[1] <= 75 * g[2])
                 => call.result = "concentrated"
           /\ (byGini /\ 100 * g[1] > 75 * g[2]) => call.result = "whale-dominated"

\* C1 witness: top1Percent exactly 80 with no staker and a gini of 0 is whale-dominated.
C1_Witness ==
    /\ call.op = "determineStatus"
    /\ call.top1Percent = <<80, 1>>
    /\ call.stakerCount = 0
    /\ call.gini = <<0, 1>>
    /\ call.result = "whale-dominated"

\* C2: determineTrustLevel returns no-stakes with ratio 50 when both totals are
\* 0; otherwise ratio = 100 * support / (support + oppose), within [0, 100], and
\* the level is trusted from 90, mixed from 70 to below 90, untrusted below 70.
C2_TrustLevel ==
    call.op = "determineTrustLevel" =>
        LET s == call.support
            o == call.oppose
            ratio == call.result.ratio
            level == call.result.level
        IN /\ (s = 0 /\ o = 0) => (level = "no-stakes" /\ ratio = <<50, 1>>)
           /\ (s + o > 0) =>
                 /\ ratio[2] > 0
                 /\ ratio[1] * (s + o) = 100 * s * ratio[2]
                 /\ 0 <= ratio[1] /\ ratio[1] <= 100 * ratio[2]
                 /\ level = "trusted" <=> 100 * s >= 90 * (s + o)
                 /\ level = "mixed" <=> (100 * s >= 70 * (s + o) /\ 100 * s < 90 * (s + o))
                 /\ level = "untrusted" <=> 100 * s < 70 * (s + o)

\* C2 witness: 9 for and 1 against is a ratio of exactly 90, and trusted.
C2_Witness ==
    /\ call.op = "determineTrustLevel"
    /\ call.support = 9 /\ call.oppose = 1
    /\ call.result = [level |-> "trusted", ratio |-> <<90, 1>>]

\* C3: the overall distribution of analyzeTrustDistribution is the more severe
\* of the FOR and AGAINST statuses (the FOR one when they are equal), never less
\* severe than either side, and the overall colour is the colour of that status.
C3_OverallIsWorse ==
    call.op = "analyzeTrustDistribution" =>
        LET for == call.result.forDistribution.status
            against == call.result.againstDistribution.status
            overall == call.result.overallDistribution
        IN /\ overall \in {for, against}
           /\ Severity(overall) >= Severity(for)
           /\ Severity(overall) >= Severity(against)
           /\ Severity(for) >= Severity(against) => overall = for
           /\ Severity(for) < Severity(against) => overall = against
           /\ call.result.overallSnapColor = DISTRIBUTION_SNAP_COLORS[overall]

\* C3 witness: a moderate FOR side and a whale-dominated AGAINST side give
\* whale-dominated overall, shown in the error colour.
C3_Witness ==
    /\ call.op = "analyzeTrustDistribution"
    /\ call.result.forDistribution.status = "moderate"
    /\ call.result.againstDistribution.status = "whale-dominated"
    /\ call.result.overallDistribution = "whale-dominated"
    /\ call.result.overallSnapColor = "error"

\* Whether a position's account is a member of the circle, whatever the case of
\* the two spellings, and is not the requesting user's.
Qualifies(position, trustedCircle, userAddress) ==
    /\ \E i \in 1..Len(trustedCircle) :
          toLowerCase(trustedCircle[i].accountId) = toLowerCase(position.account_id)
    /\ toLowerCase(position.account_id) # toLowerCase(userAddress)

\* One returned list against the positions it was made from: as many contacts as
\* qualifying positions, each account with each stake as often as among those
\* positions, and the user's address nowhere.
ExactlyQualifying(list, positions, trustedCircle, userAddress) ==
    LET kept == {i \in 1..Len(positions) : Qualifies(positions[i], trustedCircle, userAddress)}
    IN /\ Len(list) = Cardinality(kept)
       /\ \A a \in HolderIds, sh \in ShareStrings \cup MoreShareStrings \cup {ShareString(0)} :
             Cardinality({i \in 1..Len(list) : list[i].accountId = a /\ list[i].shares = sh})
                = Cardinality({i \in kept : positions[i].account_id = a
                                  /\ SharesOrZero(positions[i].shares) = sh})
       /\ \A i \in 1..Len(list) : toLowerCase(list[i].accountId) # toLowerCase(userAddress)

\* C4: whenever getTrustedContactsWithPositions returns, forContacts and
\* againstContacts each hold exactly the positions of their input list whose
\* account_id is, case-insensitively, a trusted-circle member and not the
\* requesting user's address; the user's address is in neither list.
C4_ExactlyTrustedNotUser ==
    (call.op = "getTrustedContactsWithPositions" /\ ~call.result.threw) =>
        /\ ExactlyQualifying(call.result.forContacts, call.forPositions,
                             call.trustedCircle, call.userAddress)
        /\ ExactlyQualifying(call.result.againstContacts, call.againstPositions,
                             call.trustedCircle, call.userAddress)

\* C4 witness: the user is a member of their own circle and holds a FOR position
\* under another spelling of their address; the list returned holds only the
\* other holder, whose spelling differs from the circle's.
C4_Witness ==
    /\ call.op = "getTrustedContactsWithPositions"
    /\ ~call.result.threw
    /\ call.userAddress = Address(1, "u")
    /\ HasContact(call.trustedCircle, Address(1, "l"))
    /\ Len(call.forPositions) = 2
    /\ call.forPositions[1].account_id = Address(1, "l")
    /\ call.forPositions[2].account_id = Address(2, "u")
    /\ Len(call.result.forContacts) = 1
    /\ call.result.forContacts[1].accountId = Address(2, "u")
    /\ \A i \in 1..Len(call.trustedCircle) : call.trustedCircle[i].accountId # Address(2, "u")

\* C5: a cache read made before the TTL has elapsed since the latest set for the
\* address returns exactly the list that set stored; a read made after the TTL
\* has elapsed, or for an address never set, is a miss; and the entry is always
\* exactly what the latest set stored (a later set replaces the earlier entry).
C5_CacheRoundTrip ==
    [][/\ \A r \in Requests :
             (pc[r] = "read" /\ pc'[r] # "read") =>
                LET set == lastSet[raddr[r]]
                IN /\ (set.present /\ now - set.time < CacheTTL)
                         => cached'[r] = Hit(set.contacts)
                   /\ (set.present /\ now - set.time > CacheTTL) => cached'[r] = Miss
                   /\ ~set.present => cached'[r] = Miss
       /\ \A u \in Users :
             /\ cache'[u].present = lastSet'[u].present
             /\ cache'[u].contacts = lastSet'[u].contacts
             /\ cache'[u].timestamp = lastSet'[u].time]_vars

\* C5 witness: a request was served, as a hit, the three-contact list of the latest set.
C5_Witness ==
    \E r \in Requests :
        /\ pc[r] = "done"
        /\ cached[r].hit
        /\ Len(cached[r].contacts) = 3
        /\ cached[r].contacts = lastSet[raddr[r]].contacts

\* C6: getTrustedCircle is cache-aside.  A hit returns the cached list with no
\* query and no cache write.  A miss issues exactly one query, then writes the
\* fetched list into the entry of its address (and no other), then returns that
\* list.  A read within the TTL of the latest set ends the call at once, with no
\* query.
C6_CacheAside ==
    [][\A r \in Requests :
          /\ (pc'[r] = "done" /\ cached'[r].hit) =>
                /\ queries'[r] = 0
                /\ writes'[r] = <<>>
                /\ ret'[r] = Returned(cached'[r].contacts)
          /\ (pc'[r] = "done" /\ ~cached'[r].hit) =>
                /\ queries'[r] = 1
                /\ response'[r].error = "none"
                /\ contacts'[r] = ExtractContacts(response'[r])
                /\ writes'[r] = <<contacts'[r]>>
                /\ ret'[r] = Returned(contacts'[r])
          /\ pc'[r] = "write" =>
                (queries'[r] = 1 /\ writes'[r] = <<>> /\ ret'[r] = NotReturned)
          /\ pc'[r] = "fetch" =>
                (queries'[r] = 0 /\ writes'[r] = <<>> /\ ret'[r] = NotReturned)
          /\ (pc[r] = "write" /\ pc'[r] = "done") =>
                /\ cache'[raddr[r]].present
                /\ cache'[raddr[r]].contacts = contacts[r]
                /\ \A u \in Users \ {raddr[r]} : cache'[u] = cache[u]
          /\ (pc[r] = "read" /\ pc'[r] # "read" /\ lastSet[raddr[r]].present
                /\ now - lastSet[raddr[r]].time < CacheTTL) =>
                (pc'[r] = "done" /\ queries'[r] = 0 /\ cache' = cache)]_vars

\* C6 witness: one call missed, queried once and wrote its list; a second call
\* for the same address got that list as a hit, without a query.
C6_Witness ==
    \E r1, r2 \in Requests :
        /\ r1 # r2 /\ raddr[r1] = raddr[r2]
        /\ pc[r1] = "done" /\ ~cached[r1].hit
        /\ queries[r1] = 1 /\ writes[r1] = <<contacts[r1]>> /\ Len(contacts[r1]) > 0
        /\ pc[r2] = "done" /\ cached[r2].hit
        /\ queries[r2] = 0 /\ ret[r2] = Returned(contacts[r1])

\* C7: when the query of a miss fails, the call throws (it returns no list,
\* empty or otherwise), it writes nothing, and the failing step leaves the
\* whole cache as it was.
C7_FailureSurfaced ==
    [][\A r \in Requests :
          /\ response'[r].error \in FailureKinds =>
                /\ pc'[r] = "failed"
                /\ ret'[r] = Threw(response'[r].error)
                /\ writes'[r] = <<>>
          /\ (pc[r] = "fetch" /\ response'[r].error \in FailureKinds) => cache' = cache]_vars

\* C7 witness: a call failed on an HTTP error while the (expired) entry of its
\* address still holds the contacts of an earlier fetch.
C7_Witness ==
    \E r \in Requests :
        /\ pc[r] = "failed"
        /\ response[r].error = "http"
        /\ ret[r].kind = "threw"
        /\ cache[raddr[r]].present
        /\ Len(cache[raddr[r]].contacts) > 0

\* C8 as stated: two requests for one address that have both missed and
\* fetched are about to write the same contact list.
C8_SameWrites ==
    \A r1, r2 \in Requests :
        (r1 # r2 /\ raddr[r1] = raddr[r2] /\ pc[r1] = "write" /\ pc[r2] = "write")
            => contacts[r1] = contacts[r2]

\* C8 amended: the entry always holds the complete list of the latest write,
\* which is the list extracted from one answer of the Data Provider, never a
\* mix of two; and two racing requests write the same list whenever the Data
\* Provider gave both the same answer.
C8_LastWriterWins ==
    /\ \A u \in Users :
          cache[u].present =>
             /\ cache[u].contacts = lastSet[u].contacts
             /\ \E answer \in CircleAnswers : cache[u].contacts = ExtractContacts(answer)
    /\ \A r1, r2 \in Requests :
          (r1 # r2 /\ raddr[r1] = raddr[r2] /\ pc[r1] = "write" /\ pc[r2] = "write"
              /\ response[r1] = response[r2])
             => contacts[r1] = contacts[r2]

\* C8 witness: both requests missed on the same address before any entry could
\* expire, both wrote, their lists differ, and the entry holds one of them whole.
C8_Witness ==
    \E r1, r2 \in Requests :
        /\ r1 # r2 /\ raddr[r1] = raddr[r2]
        /\ now < CacheTTL
        /\ pc[r1] = "done" /\ ~cached[r1].hit /\ writes[r1] = <<contacts[r1]>>
        /\ pc[r2] = "done" /\ ~cached[r2].hit /\ writes[r2] = <<contacts[r2]>>
        /\ Len(contacts[r1]) > 0 /\ Len(contacts[r2]) > 0
        /\ contacts[r1] # contacts[r2]
        /\ cache[raddr[r1]].contacts = contacts[r2]

\* The same list but for the labels: same length, same order, and every contact
\* with the accountId and the shares it had.
SameButLabels(after, before) ==
    /\ Len(after) = Len(before)
    /\ \A i \in 1..Len(before) :
          after[i].accountId = before[i].accountId /\ after[i].shares = before[i].shares

\* What the fallback makes of the labels: an address-shaped label becomes its
\* truncated form, any other label stays.
FallbackLabels(after, before) ==
    \A i \in 1..Len(before) :
        after[i].label = IF before[i].label.k = "addr"
                         THEN Str("trunc", before[i].label.id, before[i].label.c)
                         ELSE before[i].label

\* C9: enrichContactLabels does not throw, whether the query succeeds or fails;
\* it returns forContacts and againstContacts of the same length and order as
\* its input, every contact with its accountId and shares; and when the query
\* fails, an address-shaped label is replaced by its truncated form and any
\* other label is kept.
C9_EnrichKeepsStructure ==
    call.op = "enrichContactLabels" =>
        /\ ~call.result.threw
        /\ SameButLabels(call.result.positions.forContacts, call.positions.forContacts)
        /\ SameButLabels(call.result.positions.againstContacts, call.positions.againstContacts)
        /\ call.response.error \in FailureKinds =>
              /\ FallbackLabels(call.result.positions.forContacts, call.positions.forContacts)
              /\ FallbackLabels(call.result.positions.againstContacts,
                                call.positions.againstContacts)

\* C9 witness: the query failed for a FOR contact labelled with an address and
\* an AGAINST contact labelled with a name; the first label came back truncated,
\* the second as it was.
C9_Witness ==
    /\ call.op = "enrichContactLabels"
    /\ call.response.error = "network"
    /\ Len(call.positions.forContacts) = 1
    /\ Len(call.positions.againstContacts) = 1
    /\ call.positions.forContacts[1].label.k = "addr"
    /\ call.result.positions.forContacts[1].label.k = "trunc"
    /\ call.positions.againstContacts[1].label.k = "name"
    /\ call.result.positions.againstContacts[1].label = call.positions.againstContacts[1].label

\* Whether some holder of a position or counter-position on a returned claim is
\* a circle member, not the user and not displayed already.
SomeHolderQualifies(triples, trustedCircle, alreadyDisplayedIds, userAddress) ==
    \E t \in 1..Len(triples) :
        LET accounts == triples[t].positions \o triples[t].counter_positions
        IN \E i \in 1..Len(accounts) :
              /\ toLowerCase(accounts[i]) # toLowerCase(userAddress)
              /\ toLowerCase(accounts[i]) \notin alreadyDisplayedIds
              /\ \E c \in 1..Len(trustedCircle) :
                    toLowerCase(trustedCircle[c].accountId) = toLowerCase(accounts[i])

\* C10: getNetworkFamiliarity does not throw; it returns undefined when the
\* query fails, when the trusted circle is empty (and then makes no query),
\* when the answer holds no claims, and when no position holder qualifies; a
\* result it does return has at least one familiar contact.
C10_FamiliarityUndefined ==
    call.op = "getNetworkFamiliarity" =>
        /\ ~call.result.threw
        /\ call.response.error \in FailureKinds => ~call.result.defined
        /\ Len(call.trustedCircle) = 0 => (~call.result.defined /\ call.result.queries = 0)
        /\ Len(call.response.triples) = 0 => ~call.result.defined
        /\ ~SomeHolderQualifies(call.response.triples, call.trustedCircle,
                                call.alreadyDisplayedIds, call.userAddress)
              => ~call.result.defined
        /\ call.result.defined => Len(call.result.familiarContacts) > 0

\* C10 witness: the circle is not empty and the query returned a claim with a
\* holder from the circle, but that holder is displayed already: undefined.
C10_Witness ==
    /\ call.op = "getNetworkFamiliarity"
    /\ Len(call.trustedCircle) > 0
    /\ call.result.queries = 1
    /\ Len(call.response.triples) > 0
    /\ \E t \in 1..Len(call.response.triples) :
          \E i \in 1..Len(call.response.triples[t].counter_positions) :
              /\ HasContact(call.trustedCircle,
                            toLowerCase(call.response.triples[t].counter_positions[i]))
              /\ toLowerCase(call.response.triples[t].counter_positions[i])
                    \in call.alreadyDisplayedIds
    /\ ~call.result.defined

\* The holders of a claim, on either side.
HoldersOf(triple) ==
    {triple.positions[i] : i \in 1..Len(triple.positions)}
        \cup {triple.counter_positions[i] : i \in 1..Len(triple.counter_positions)}

\* The accounts, in lower case, that hold a position or counter-position on some
\* returned claim, are circle members, are not the user and are not displayed.
QualifyingAccounts(triples, trustedCircle, alreadyDisplayedIds, userAddress) ==
    {toLowerCase(a) :
        a \in {h \in UNION {HoldersOf(triples[t]) : t \in 1..Len(triples)} :
                  /\ toLowerCase(h) # toLowerCase(userAddress)
                  /\ toLowerCase(h) \notin alreadyDisplayedIds
                  /\ \E c \in 1..Len(trustedCircle) :
                        toLowerCase(trustedCircle[c].accountId) = toLowerCase(h)}}

\* The (predicateLabel, objectLabel) pairs of the claims an account holds.
PairsHeldBy(triples, account) ==
    {ClaimOf(triples[t]) :
        t \in {u \in 1..Len(triples) :
                  \E h \in HoldersOf(triples[u]) : toLowerCase(h) = account}}

\* C11: a result returned by getNetworkFamiliarity has exactly one familiar
\* contact per qualifying account (spellings that differ in case are one
\* account), and the claims of each contact are the (predicateLabel,
\* objectLabel) pairs of the claims the account holds, each pair once.
C11_OneEntryPerContact ==
    (call.op = "getNetworkFamiliarity" /\ call.result.defined) =>
        LET familiarContacts == call.result.familiarContacts
            accounts == QualifyingAccounts(call.response.triples, call.trustedCircle,
                                           call.alreadyDisplayedIds, call.userAddress)
        IN /\ {toLowerCase(familiarContacts[i].accountId) : i \in 1..Len(familiarContacts)}
                 = accounts
           /\ Len(familiarContacts) = Cardinality(accounts)
           /\ \A i \in 1..Len(familiarContacts) :
                 LET claims == familiarContacts[i].claims
                     pairs == PairsHeldBy(call.response.triples,
                                          toLowerCase(familiarContacts[i].accountId))
                 IN /\ {claims[j] : j \in 1..Len(claims)} = pairs
                    /\ Len(claims) = Cardinality(pairs)

\* C11 witness: one account holds, under two spellings, positions on two
\* returned claims with the same labels; it is one contact with one claim.
C11_Witness ==
    /\ call.op = "getNetworkFamiliarity"
    /\ call.result.defined
    /\ Len(call.response.triples) = 2
    /\ ClaimOf(call.response.triples[1]) = ClaimOf(call.response.triples[2])
    /\ Address(2, "l") \in HoldersOf(call.response.triples[1])
    /\ Address(2, "u") \in HoldersOf(call.response.triples[2])
    /\ Len(call.result.familiarContacts) = 1
    /\ Len(call.result.familiarContacts[1].claims) = 1

\* The positive entries of a list, by index.
PositiveEntries(values) == {i \in 1..Len(values) : values[i] > 0}

RECURSIVE SumAt(_, _)
SumAt(values, indices) ==
    IF indices = {} THEN 0
    ELSE LET i == CHOOSE i \in indices : TRUE
         IN values[i] + SumAt(values, indices \ {i})

\* The sum of the k largest positive entries: the largest sum k of them have.
TopSum(values, k) ==
    LET sums == {SumAt(values, chosen) :
                    chosen \in {c \in SUBSET PositiveEntries(values) : Cardinality(c) = k}}
    IN CHOOSE m \in sums : \A other \in sums : other <= m

C13_NakamotoSmallestK ==
    call.op = "calculateNakamoto" =>
        LET count == Cardinality(PositiveEntries(call.values))
            total == SumAt(call.values, PositiveEntries(call.values))
            enough == {k \in 1..count : 100 * TopSum(call.values, k) >= 51 * total}
        IN IF count = 0 THEN call.result = 0
           ELSE /\ call.result \in enough
                /\ \A k \in enough : call.result <= k
                /\ 1 <= call.result /\ call.result <= count

\* C13 witness: nakamoto([20, 25, 30, 25]) = 2, the two largest being 55%.
C13_Witness ==
    /\ call.op = "calculateNakamoto"
    /\ call.values = <<20, 25, 30, 25>>
    /\ call.result = 2

\* C14: calculateTopNPercent(values, n) returns a value in [0, 100] for every
\* list and every n >= 0, also for n above the number of positive values.
C14_TopNWithin100 ==
    call.op = "calculateTopNPercent" =>
        /\ RLeq(Rat(0, 1), call.result)
        /\ RLeq(call.result, Rat(100, 1))

\* C15: analyzeShareDistribution returns, for a list with no positive entry, the
\* zeroed analysis (gini, nakamoto, top1Percent, top3Percent, stakerCount and
\* totalShares 0, status well-distributed, label 'No Stakes'), and for a list
\* with a positive entry an analysis whose label is not 'No Stakes'.
C15_EmptyAnalysis ==
    call.op = "analyzeShareDistribution" =>
        IF \A i \in 1..Len(call.shares) : call.shares[i] <= 0
        THEN /\ call.result.gini = Rat(0, 1)
             /\ call.result.nakamoto = 0
             /\ call.result.top1Percent = Rat(0, 1)
             /\ call.result.top3Percent = Rat(0, 1)
             /\ call.result.stakerCount = 0
             /\ call.result.totalShares = 0
             /\ call.result.status = "well-distributed"
             /\ call.result.label = "No Stakes"
        ELSE call.result.label # "No Stakes"

\* C15 witness: a list of a zero and a negative entry is analysed as 'No Stakes'.
C15_Witness ==
    /\ call.op = "analyzeShareDistribution"
    /\ call.shares = <<0, -1>>
    /\ call.result.label = "No Stakes"
    /\ call.result.status = "well-distributed"

\* C16 as stated: determineStatus with stakerCount = 0 returns well-distributed
\* for every gini and every top1Percent.
C16_ZeroStakersAlways ==
    (call.op = "determineStatus" /\ call.stakerCount = 0)
        => call.result = "well-distributed"

\* C16 amended: with stakerCount = 0, determineStatus returns whale-dominated
\* when top1Percent >= 80 and well-distributed otherwise, for every gini.
C16_ZeroStakers ==
    (call.op = "determineStatus" /\ call.stakerCount = 0) =>
        call.result = IF RLeq(Rat(80, 1), call.top1Percent)
                      THEN "whale-dominated" ELSE "well-distributed"

\* C16 witness: no stakers, a gini of 1 and a top1Percent below 80.
C16_Witness ==
    /\ call.op = "determineStatus"
    /\ call.stakerCount = 0
    /\ call.gini = Rat(1, 1)
    /\ RLt(call.top1Percent, Rat(80, 1))
    /\ call.result = "well-distributed"

\* Whether the call in progress is one of the three analyzers.
AnalyzerCall ==
    call.op \in {"analyzeShareDistribution", "analyzePositionDistribution",
                 "estimateDistributionFromAggregate"}

\* Some analyses the analyzers return, an empty and a healthy one among them.
SampleAnalyses ==
    {analyzeShareDistribution(shares) : shares \in SeqsUpTo({0, 1, MaxShare}, 3)}
        \cup {estimateDistributionFromAggregate(Aggregate(count, count, 1)) : count \in 0..MaxCount}

\* C17 as stated: any two analyses returned with the same status have the same
\* snapColor, hexColor, label and shortLabel.
C17_PresentationByStatus ==
    AnalyzerCall =>
        \A other \in SampleAnalyses :
            other.status = call.result.status =>
                /\ other.snapColor = call.result.snapColor
                /\ other.hexColor = call.result.hexColor
                /\ other.label = call.result.label
                /\ other.shortLabel = call.result.shortLabel

\* C17 amended: snapColor and hexColor are a function of the status alone; label
\* and shortLabel are a function of the status and of whether the analysis is
\* the empty one (stakerCount = 0), which is labelled 'No Stakes' / 'None'.
C17_PresentationByStatusAndEmptiness ==
    AnalyzerCall =>
        /\ call.result.snapColor = DISTRIBUTION_SNAP_COLORS[call.result.status]
        /\ call.result.hexColor = DISTRIBUTION_HEX_COLORS[call.result.status]
        /\ call.result.label = IF call.result.stakerCount = 0 THEN "No Stakes"
                               ELSE DISTRIBUTION_LABELS[call.result.status]
        /\ call.result.shortLabel = IF call.result.stakerCount = 0 THEN "None"
                                    ELSE DISTRIBUTION_SHORT_LABELS[call.result.status]
        /\ \A other \in SampleAnalyses :
              other.status = call.result.status =>
                 /\ other.snapColor = call.result.snapColor
                 /\ other.hexColor = call.result.hexColor
                 /\ (other.stakerCount = 0) = (call.result.stakerCount = 0) =>
                       /\ other.label = call.result.label
                       /\ other.shortLabel = call.result.shortLabel

\* C17 witness: a vault of three equal stakes is well-distributed, as the empty
\* analysis is, and is labelled 'Well Distributed'.
C17_Witness ==
    /\ call.op = "analyzePositionDistribution"
    /\ call.result.stakerCount = 3
    /\ call.result.status = "well-distributed"
    /\ call.result.label = "Well Distributed"
    /\ call.result.snapColor = analyzeShareDistribution(<<>>).snapColor
    /\ call.result.label # analyzeShareDistribution(<<>>).label

\* The finite positive shares of a list of positions, in their order.
FinitePositiveShares(positions) ==
    LET kept == SelectSeq(positions, LAMBDA s : ~isNaN(s) /\ s.v > 0 /\ s.v # Infinity)
    IN [i \in 1..Len(kept) |-> kept[i].v]

\* C18: analyzePositionDistribution discards every position whose shares is
\* not finite (NaN, +Infinity, -Infinity) or not positive: its result is
\* analyzeShareDistribution of the finite positive shares.
C18_NonFiniteDiscarded ==
    call.op = "analyzePositionDistribution" =>
        call.result = analyzeShareDistribution(FinitePositiveShares(call.positions))

\* Whether an analysis is the empty one.
IsEmptyAnalysis(analysis) == analysis = analyzeShareDistribution(<<>>)

\* Whether two analyses agree in top1Percent, gini and status.
SameEstimate(a, b) ==
    /\ a.top1Percent = b.top1Percent
    /\ a.gini = b.gini
    /\ a.status = b.status

\* C19 as stated: estimateDistributionFromAggregate returns the empty analysis
\* when the aggregate is null/undefined or its count is 0, and for every other
\* aggregate a non-empty analysis with stakerCount = count whose top1Percent,
\* gini and status depend on count alone.
C19_EstimateByCount ==
    call.op = "estimateDistributionFromAggregate" =>
        IF call.aggregate.null \/ call.aggregate.count = 0
        THEN IsEmptyAnalysis(call.result)
        ELSE /\ ~IsEmptyAnalysis(call.result)
             /\ call.result.stakerCount = call.aggregate.count
             /\ \A other \in Aggregates :
                   (~other.null /\ other.count = call.aggregate.count)
                      => SameEstimate(estimateDistributionFromAggregate(other), call.result)

\* C19 amended: the empty analysis is returned when the aggregate is
\* null/undefined, its count is 0, or its summed shares are 0; every other
\* aggregate gets a non-empty analysis with stakerCount = count whose
\* top1Percent, gini and status depend on count alone.
C19_EstimateByCountAndSum ==
    call.op = "estimateDistributionFromAggregate" =>
        IF call.aggregate.null \/ call.aggregate.count = 0 \/ call.aggregate.sum = 0
        THEN IsEmptyAnalysis(call.result)
        ELSE /\ ~IsEmptyAnalysis(call.result)
             /\ call.result.stakerCount = call.aggregate.count
             /\ \A other \in Aggregates :
                   (~other.null /\ other.count = call.aggregate.count /\ other.sum # 0)
                      => SameEstimate(estimateDistributionFromAggregate(other), call.result)

\* C19 witness: two positions holding shares are estimated as a 70% top holder.
C19_Witness ==
    /\ call.op = "estimateDistributionFromAggregate"
    /\ ~call.aggregate.null
    /\ call.aggregate.count = 2
    /\ call.aggregate.sum > 0
    /\ call.result.stakerCount = 2
    /\ call.result.top1Percent = Rat(70, 1)
    /\ call.result.gini = Rat(5, 10)

\* C20: no non-empty analysis returned by estimateDistributionFromAggregate is
\* equal to an analysis analyzeShareDistribution returns: a consumer can tell
\* an estimate from an exact analysis.
C20_EstimatesDistinguishable ==
    (call.op = "estimateDistributionFromAggregate" /\ ~IsEmptyAnalysis(call.result)) =>
        \A shares \in ShareLists : analyzeShareDistribution(shares) # call.result

\* The analysis of one side of a triple: the exact one when the side's positions
\* are present and not empty, the estimate from the side's aggregate otherwise.
SideAnalysis(positions, aggregate) ==
    IF positions.present /\ positions.list # <<>>
    THEN analyzePositionDistribution(positions.list)
    ELSE estimateDistributionFromAggregate(aggregate)

\* C21: analyzeTrustDistribution analyses each side from that side's inputs
\* alone, by analyzePositionDistribution exactly when the side's positions
\* are present and not empty and by estimateDistributionFromAggregate
\* otherwise; trust level and ratio are those of the two market caps.
C21_PathPerSide ==
    call.op = "analyzeTrustDistribution" =>
        /\ call.result.forDistribution = SideAnalysis(call.forPositions, call.forAggregate)
        /\ call.result.againstDistribution
              = SideAnalysis(call.againstPositions, call.againstAggregate)
        /\ call.result.trustLevel
              = determineTrustLevel(call.supportMarketCap, call.opposeMarketCap).level
        /\ call.result.trustRatio
              = determineTrustLevel(call.supportMarketCap, call.opposeMarketCap).ratio

\* C21 witness: the FOR side has one position of no shares and an aggregate of
\* two, and is analysed exactly (as empty); the AGAINST side has no positions
\* and is estimated from its aggregate of two.
C21_Witness ==
    /\ call.op = "analyzeTrustDistribution"
    /\ call.forPositions = Positions(<<Num(0)>>)
    /\ call.forAggregate = Aggregate(2, 2, 1)
    /\ call.againstPositions = NoPositions
    /\ call.againstAggregate = Aggregate(2, 2, 1)
    /\ call.result.forDistribution.stakerCount = 0
    /\ call.result.againstDistribution.stakerCount = 2

\* Whether a list of contacts is in non-increasing order of stake, the stakes
\* compared as integers.
NonIncreasingShares(list) ==
    \A i \in 1..(Len(list) - 1) : list[i].shares.v >= list[i + 1].shares.v

\* The stakes of the trusted holders of one side, missing and empty ones as 0.
TrustedStakes(positions, trustedCircle, userAddress) ==
    LET kept == SelectSeq(positions, LAMBDA p : Qualifies(p, trustedCircle, userAddress))
    IN [i \in 1..Len(kept) |-> SharesOrZero(kept[i].shares).v]

\* C22: the lists getTrustedContactsWithPositions returns are in non-increasing
\* order of stake, the shares compared as exact integers and a missing shares
\* value counted as 0: each list holds the stakes of its trusted holders,
\* largest first.
C22_SortedByExactShares ==
    (call.op = "getTrustedContactsWithPositions" /\ ~call.result.threw) =>
        /\ NonIncreasingShares(call.result.forContacts)
        /\ NonIncreasingShares(call.result.againstContacts)
        /\ [i \in 1..Len(call.result.forContacts) |-> call.result.forContacts[i].shares.v]
              = SortDesc(TrustedStakes(call.forPositions, call.trustedCircle, call.userAddress))
        /\ [i \in 1..Len(call.result.againstContacts) |-> call.result.againstContacts[i].shares.v]
              = SortDesc(TrustedStakes(call.againstPositions, call.trustedCircle, call.userAddress))

\* C22 witness: two stakes that floating point cannot tell apart, the smaller
\* one first in the input, are returned with the larger one first.
C22_Witness ==
    /\ call.op = "getTrustedContactsWithPositions"
    /\ ~call.result.threw
    /\ Len(call.forPositions) = 2
    /\ call.forPositions[1].shares = ShareString(SignificandLimit)
    /\ call.forPositions[2].shares = ShareString(SignificandLimit + 1)
    /\ RoundToSignificand(SignificandLimit + 1) = SignificandLimit
    /\ Len(call.result.forContacts) = 2
    /\ call.result.forContacts[1].shares = ShareString(SignificandLimit + 1)
    /\ call.result.forContacts[2].shares = ShareString(SignificandLimit)

\* C23: getTrustedContactsWithPositions returns a result, without throwing, for
\* every combination of shares strings of the positions: missing, empty,
\* negative and unparsable ones included.
C23_NeverThrows ==
    call.op = "getTrustedContactsWithPositions" => ~call.result.threw

\* The account address of a position's subject: the data field when it is a
\* well-formed address, else the label field when that is one, else none.
SubjectAddress(position) ==
    IF position.shape # "triple" THEN Undefined
    ELSE IF isEvmAddress(position.data) THEN position.data
    ELSE IF isEvmAddress(position.label) THEN position.label
    ELSE Undefined

\* Whether position p is the first of the answer with its subject address.
FirstOfAddress(positions, p) ==
    /\ ~Falsy(SubjectAddress(positions[p]))
    /\ \A q \in 1..(p - 1) :
          toLowerCase(SubjectAddress(positions[q])) # toLowerCase(SubjectAddress(positions[p]))

\* C24: the contacts fetched from an answer are the subject addresses of its
\* positions, one contact per distinct address (compared case-insensitively)
\* in the spelling of the first position that has it; the address is the
\* subject's data field when well-formed, else its label field when
\* well-formed; positions with neither give no contact, so every accountId
\* is a well-formed address.
C24_OneContactPerAddress ==
    \A r \in Requests :
        pc[r] = "write" =>
            LET list == contacts[r]
                positions == response[r].positions
                firsts == {p \in 1..Len(positions) : FirstOfAddress(positions, p)}
            IN /\ \A i, j \in 1..Len(list) :
                     i # j => toLowerCase(list[i].accountId) # toLowerCase(list[j].accountId)
               /\ \A i \in 1..Len(list) : isEvmAddress(list[i].accountId)
               /\ Len(list) = Cardinality(firsts)
               /\ \A p \in firsts :
                     \E i \in 1..Len(list) : list[i].accountId = SubjectAddress(positions[p])

\* C24 witness: an answer of seven positions, of which two are not on a triple
\* with a subject, one has no address, and two repeat an address, gives three
\* contacts, the third one under the address of its data field.
C24_Witness ==
    \E r \in Requests :
        /\ pc[r] = "write"
        /\ Len(response[r].positions) = 7
        /\ Len(contacts[r]) = 3
        /\ contacts[r][1].accountId = Address(1, "u")
        /\ contacts[r][2].accountId = Address(2, "l")
        /\ contacts[r][3].accountId = Address(3, "u")
        /\ response[r].positions[7].label = Address(2, "l")

\* The badge that goes with a trust level.
BadgeOfLevel(level) ==
    CASE level = "trusted" -> "Trusted"
      [] level = "mixed" -> "Mixed"
      [] level = "untrusted" -> "Untrusted"
      [] level = "no-stakes" -> "No Stakes"

\* C25: determineTrustLevel and getTrustInfo classify every pair of
\* non-negative totals alike: trusted with 'Trusted', mixed with 'Mixed',
\* untrusted with 'Untrusted', no-stakes with 'No Stakes'.
C25_MirrorsGetTrustInfo ==
    call.op = "determineTrustLevel" =>
        BadgeOfLevel(call.result.level) = getTrustInfo(call.support, call.oppose).badge

CircleDataAbsent(c) ==
    \/ Falsy(tx.userAddress)
    \/ tx.trustedCircle.value = <<>>
    \/ ~tx[c].value.triple
    \/ \A p \in {tx[c].value.positions[i] : i \in 1..Len(tx[c].value.positions)}
              \cup {tx[c].value.counter_positions[i] : i \in 1..Len(tx[c].value.counter_positions)} :
          ~Qualifies(p, tx.trustedCircle.value, tx.userAddress)

\* C27: onTransaction starts its three lookups together and cross-references
\* only after all three have resolved; a request that returns has created
\* exactly one interface, and for a claim without trusted-circle data the
\* trustedCircle field is undefined and enrichContactLabels was not called; a
\* request whose lookups resolved throws only if some claim has such data.
C27_JoinThenRender ==
    /\ tx.pc # "idle" =>
          /\ tx.account.state # "idle"
          /\ tx.origin.state # "idle"
          /\ tx.trustedCircle.state # "idle"
    /\ tx.pc \in {"xref", "enrich", "create", "done"} =>
          /\ tx.account.state = "resolved"
          /\ tx.origin.state = "resolved"
          /\ tx.trustedCircle.state = "resolved"
    /\ tx.pc # "done" => tx.interfaces = 0
    /\ tx.pc = "done" =>
          /\ tx.interfaces = 1
          /\ \A c \in TxClaims :
                CircleDataAbsent(c) => (~tx.props[c].present /\ tx.enrichCalls[c] = 0)
    /\ (tx.pc = "failed" /\ "rejected" \notin {tx.account.state, tx.origin.state, tx.trustedCircle.state})
          => \E c \in TxClaims : ~CircleDataAbsent(c)

\* C27 witness: the user has a circle, the account's triple is held by the user
\* and a stranger only, the origin has no triple; the interface is created
\* with both trustedCircle fields undefined and no enrichContactLabels call.
C27_Witness ==
    /\ tx.pc = "done"
    /\ tx.interfaces = 1
    /\ Len(tx.trustedCircle.value) = 2
    /\ tx.account.value.triple /\ Len(tx.account.value.positions) = 1
    /\ ~tx.origin.value.triple
    /\ ~tx.props["account"].present /\ ~tx.props["origin"].present
    /\ tx.enrichCalls = [c \in TxClaims |-> 0]

\* C28: for an aggregate with count >= 1 and a non-zero total,
\* estimateDistributionFromAggregate reports whale-dominated for count = 1,
\* concentrated for count 2 to 5 and moderate for every count from 6 on: the
\* status depends on count alone and is never well-distributed.
C28_EstimateStatusByCount ==
    (/\ call.op = "estimateDistributionFromAggregate"
     /\ ~call.aggregate.null
     /\ call.aggregate.count >= 1
     /\ call.aggregate.sum # 0) =>
        call.result.status = IF call.aggregate.count = 1 THEN "whale-dominated"
                             ELSE IF call.aggregate.count <= 5 THEN "concentrated"
                             ELSE "moderate"

\* C28 witness: eleven stakers are estimated at a gini of 0.4 and a top holder
\* of 20%, and reported as moderate.
C28_Witness ==
    /\ call.op = "estimateDistributionFromAggregate"
    /\ call.aggregate.count = 11
    /\ call.result.gini = Rat(4, 10)
    /\ call.result.top1Percent = Rat(20, 1)
    /\ call.result.status = "moderate"

\* C29: every analysis returned by analyzeShareDistribution or
\* estimateDistributionFromAggregate has 0 <= top1Percent <= top3Percent <= 100,
\* nakamoto = 0 exactly when stakerCount = 0, and otherwise
\* 1 <= nakamoto <= stakerCount.
C29_AnalysisConsistent ==
    call.op \in {"analyzeShareDistribution", "estimateDistributionFromAggregate"} =>
        /\ RLeq(Rat(0, 1), call.result.top1Percent)
        /\ RLeq(call.result.top1Percent, call.result.top3Percent)
        /\ RLeq(call.result.top3Percent, Rat(100, 1))
        /\ (call.result.nakamoto = 0) <=> (call.result.stakerCount = 0)
        /\ call.result.stakerCount > 0 =>
              (1 <= call.result.nakamoto /\ call.result.nakamoto <= call.result.stakerCount)

\* C30: an empty trusted circle is cached like any other.  A miss whose query
\* gave no contacts still writes the empty list to the entry of its address;
\* a later read of that address within the TTL of that write ends the call at
\* once as a hit that returns the empty list, with no query.
C30_EmptyCircleCached ==
    [][\A r \in Requests :
          /\ (pc[r] = "write" /\ pc'[r] = "done" /\ contacts[r] = <<>>) =>
                /\ cache'[raddr[r]] = [present |-> TRUE, contacts |-> <<>>, timestamp |-> now]
                /\ ret'[r] = Returned(<<>>)
          /\ (/\ pc[r] = "read" /\ pc'[r] # "read"
              /\ lastSet[raddr[r]].present
              /\ lastSet[raddr[r]].contacts = <<>>
              /\ now - lastSet[raddr[r]].time < CacheTTL) =>
                /\ cached'[r] = Hit(<<>>)
                /\ pc'[r] = "done"
                /\ ret'[r] = Returned(<<>>)
                /\ queries'[r] = 0
                /\ cache' = cache]_vars

\* C30 witness: one call missed, was answered without contacts and wrote the
\* empty list; another call for the same address was served the empty list
\* as a hit, without a query.
C30_Witness ==
    \E r1, r2 \in Requests :
        /\ r1 # r2 /\ raddr[r1] = raddr[r2]
        /\ pc[r1] = "done" /\ ~cached[r1].hit
        /\ queries[r1] = 1 /\ writes[r1] = << <<>> >>
        /\ pc[r2] = "done" /\ cached[r2] = Hit(<<>>)
        /\ queries[r2] = 0 /\ ret[r2] = Returned(<<>>)

====
